---- MODULE Spec2Model ----
(***************************************************************************)
(* FluxVault: the Keeper's file-state reconciliation engine                *)
(* (fluxkeeper.py sync_objects and its helpers), the directive state of    *)
(* fluxapp_config.py and the Agent's file RPCs (fluxagent.py).             *)
(*                                                                         *)
(* Paths are sequences of path components.  A filesystem is a function     *)
(* from the paths of a small universe to entries.  CRC-32 is modelled by   *)
(* the fold the code performs (seed, then byte after byte), idealised as   *)
(* collision free: the value is the byte stream read as a number in base   *)
(* Base, so the empty stream hashes to 0 exactly as binascii.crc32(b"").   *)
(***************************************************************************)
EXTENDS Integers, Sequences, FiniteSets, TLC

VARIABLES
    directives,  \* the component's directives, fixed at construction
    mo,          \* the state of each directive for the one agent polled
    local,       \* the keeper's staging tree
    remote,      \* the agent's tree
    calls,       \* the RPCs of the last poll, in the order issued
    lastOp,      \* the step that led here: "init", "poll" or "change"
    tick,        \* flipped by every poll
    changes,     \* outside changes so far
    blockSize,   \* the bytes one content symbol of a staged file stands for
    fhPath, fhList, fhResult, fhDone, \* filter_hierarchy applied on its own
    authenticate_clients,   \* the agent's transport: verify the source
    whitelisted_addresses,  \* the agent's transport: the addresses let in
    sockets,     \* the agent's transport: self.sockets, per peer
    messages,    \* the agent's transport: self.messages
    handler,     \* where handle_client is for each peer
    client,      \* each client's transport: position, key, encrypted
    toAgent,     \* frames written by a client, not yet read by the agent
    toClient,    \* frames written by the agent, not yet read by the client
    trace,       \* per connection: frames written and handler steps so far
    closed,      \* per connection: which side has closed its socket
    nextKey,     \* RSA key pairs generated so far
    stay_connected,  \* run_agents_async: the argument of the cycle
    tasks,       \* run_agents_async: each agent's task list
    runner,      \* where each agent's task_runner is
    transport,   \* each agent's transport: connected, failed_on
    fault,       \* what each agent's node and task bodies will do
    runlog,      \* per agent: the steps of its task_runner so far
    results,     \* per agent: the tasks whose result was stored
    outcome,     \* the cycle: "running", "returned" or "exited"
    agents,      \* the Keeper's list of agents, by identity
    sub_agents,  \* the registrar's list of subordinates
    sub,         \* each subordinate: where it is, its enrolled flag
    registrar,   \* what a POST to the registrar meets
    history,     \* per subordinate: the steps of its enrollment so far
    cycles,      \* enroll_subordinates cycles so far
    keeper,      \* the Keeper process: "running" or "exited"
    node_ips,    \* build_agents: the addresses of its last round
    agent_key, agent_cert, agent_ca,  \* an agent: what is installed
    bind_port,   \* an agent: the port given at construction
    rpc_server,  \* an agent: the transport of self.rpc_server
    listeners,   \* an agent: the transports that accept connections
    pending,     \* an agent: serve_forever tasks created, not yet started
    upgraded,    \* an agent: what the last upgrade_to_ssl used
    components,  \* an app configuration: self.components
    lastAdd,     \* an app configuration: the last operation and its input
    plugin_dir,  \* an agent: the module files of its plugin directory
    plugins,     \* an agent: the plugins registered with its extensions
    plugin_log,  \* an agent: the steps of load_plugins so far
    plugin_outcome,  \* load_plugins: "idle", "returned" or "raised"
    crc_tree,    \* a directory tree held by Keeper and agent alike
    keeper_rank, agent_rank,  \* the order each filesystem enumerates in
    keeper_crc, agent_crc,    \* what each side hashed the tree to
    crc_done,    \* whether both sides have hashed the tree
    agent_args,  \* the arguments an agent is constructed with
    agent_made,  \* the constructor: "none", "raised" or "made"
    agent_transport  \* the server transport the constructor made

vars == <<directives, mo, local, remote, calls, lastOp, tick, changes,
          blockSize, fhPath, fhList, fhResult, fhDone,
          authenticate_clients, whitelisted_addresses, sockets, messages,
          handler, client, toAgent, toClient, trace, closed, nextKey,
          stay_connected, tasks, runner, transport, fault, runlog, results,
          outcome, agents, sub_agents, sub, registrar, history, cycles,
          keeper, node_ips, agent_key, agent_cert, agent_ca, bind_port, rpc_server,
          listeners, pending, upgraded, components, lastAdd,
          plugin_dir, plugins, plugin_log, plugin_outcome, crc_tree,
          keeper_rank, agent_rank, keeper_crc, agent_crc, crc_done,
          agent_args, agent_made, agent_transport>>

syncVars == <<directives, mo, local, remote, calls, lastOp, tick, changes,
              blockSize>>
fhVars == <<fhPath, fhList, fhResult, fhDone>>
netVars == <<authenticate_clients, whitelisted_addresses, sockets, messages,
             handler, client, toAgent, toClient, trace, closed, nextKey>>
runVars == <<stay_connected, tasks, runner, transport, fault, runlog,
             results, outcome>>
enrVars == <<agents, sub_agents, sub, registrar, history, cycles, keeper,
             node_ips>>
tlsVars == <<agent_key, agent_cert, agent_ca, bind_port, rpc_server,
             listeners, pending, upgraded>>
cfgVars == <<components, lastAdd>>
plgVars == <<plugin_dir, plugins, plugin_log, plugin_outcome>>
crcVars == <<crc_tree, keeper_rank, agent_rank, keeper_crc, agent_crc,
             crc_done>>
agtVars == <<agent_args, agent_made, agent_transport>>

(***************************************************************************)
(* Bounds                                                                  *)
(***************************************************************************)
\* outside changes (operator or tenant edits of a tree) in one behaviour
MaxChanges == 1
\* length of the extras list handed to filter_hierarchy on its own
MaxExtras == 2
\* requests the keeper sends on its connection after the handshake
MaxRequests == 1
\* tasks in one agent's task list
MaxTasks == 2
\* module files in the plugin directory of an agent
MaxPlugins == 2
\* enroll_subordinates cycles in one behaviour
MaxCycles == 2
\* entries of the registrar's list beyond which only a first registration
\* is appended
MaxEntries == 3

(***************************************************************************)
(* Socket transports (socketservertransport.py, socketclienttransport.py)  *)
(*                                                                         *)
(* One agent listens; the keeper and one other client each open one        *)
(* connection.  A frame is what one send() writes before the separator.    *)
(* RSA and AES are modelled by what they allow: an envelope opens only     *)
(* with the key it was made for, anything else raises.                     *)
(***************************************************************************)
Keeper == "keeper"
Other == "other"
Peers == {Keeper, Other}

\* peername[0] of each client
Address(p) == IF p = Keeper THEN "10.0.0.1" ELSE "10.0.0.2"

\* the whitelists an agent is started with
Whitelists == { {}, {Address(Keeper)} }

\* get_random_bytes(16).hex() of the test message, shortened
Fills == { <<"1", "2">>, <<"2", "2">> }

\* random[::-1]
RECURSIVE Reverse(_)
Reverse(s) == IF s = <<>> THEN <<>> ELSE Append(Reverse(Tail(s)), Head(s))

Frame(kind, key, text, fill) ==
    [kind |-> kind, key |-> key, text |-> text, fill |-> fill]

Msg(text, fill) == [text |-> text, fill |-> fill]

\* what a failed decryption or parse stands for: the exception raised
Error == Msg("<raised>", <<>>)

\* rsa.publickey().export_key() as sent in the first frame
Public(k) == Frame("public_key", k, "", <<>>)

\* SocketClientTransport.encrypt_data: the session key under the RSA key
encrypt_data(keypem, data) ==
    Frame("rsa_envelope", keypem.key, "enc_session_key", <<data>>)

\* SocketServerTransport.decrypt_data: raises unless the frame is an
\* envelope made for this RSA key
decrypt_data(rsa, f) ==
    IF f.kind = "rsa_envelope" /\ f.key = rsa THEN f.fill[1] ELSE "<raised>"

\* encrypt_aes_data: {nonce, tag, ciphertext} under the AES key
encrypt_aes_data(key, m) == Frame("aes_envelope", key, m.text, m.fill)

\* decrypt_aes_data: raises unless the frame is an envelope under this key
decrypt_aes_data(key, f) ==
    IF f.kind = "aes_envelope" /\ f.key = key
    THEN Msg(f.text, f.fill) ELSE Error

\* a payload written as it is
plain(m) == Frame("plain", "", m.text, m.fill)

\* the message a frame carries when it is not decrypted
raw(f) == Msg(f.text, f.fill)

Request == Msg("rpc_request", <<>>)
Reply == Msg("rpc_reply", <<>>)

\* an entry of a connection's history: a frame written, or a step of the
\* agent's handler
Ev(ev, from, enc, frame) ==
    [ev |-> ev, from |-> from, enc |-> enc, frame |-> frame]

NoFrame == Frame("", "", "", <<>>)

\* self.sockets[peer]
NoEntry == [present |-> FALSE, encrypted |-> FALSE, rsa |-> 0, aes |-> ""]

\* authenticated without the whitelist: every source passes
authenticated_any(peer_ip) == TRUE

\* SocketServerTransport.authenticated
authenticated(peer_ip) == peer_ip \in whitelisted_addresses

\* reader.at_eof(): EOF was fed and nothing is buffered
at_eof(p) == closed[p].client /\ toAgent[p] = <<>>

Handler(stage, phase, random) ==
    [stage |-> stage, phase |-> phase, random |-> random]

\* a client opens its connection (get_connection); asyncio starts
\* handle_client for it
Connect(p) ==
    /\ client[p].pc = "init"
    /\ client' = [client EXCEPT ![p].pc = IF p = Keeper THEN "wait_pub"
                                          ELSE "open"]
    /\ handler' = [handler EXCEPT ![p] = Handler("accept", "check", <<>>)]
    /\ UNCHANGED <<syncVars, fhVars, runVars, enrVars, tlsVars,
                 cfgVars,
                 plgVars, crcVars, agtVars>>
    /\ UNCHANGED <<authenticate_clients, whitelisted_addresses, sockets,
                   messages, toAgent, toClient, trace, closed, nextKey>>

\* generate_key_data: a fresh key pair in the peer's entry
generate_key_data(socks, p, k) == [socks EXCEPT ![p].rsa = k]

\* handle_client up to the first receive: the whitelist, the peer's entry,
\* then encrypt_socket up to the public key sent
handle_client(p) ==
    /\ handler[p].stage = "accept"
    /\ IF authenticate_clients /\ ~authenticated(Address(p))
       THEN /\ closed' = [closed EXCEPT ![p].agent = TRUE]
            /\ handler' = [handler EXCEPT ![p].stage = "done"]
            /\ trace' = [trace EXCEPT
                           ![p] = Append(@, Ev("drop", "agent", FALSE,
                                               NoFrame))]
            /\ UNCHANGED <<sockets, toClient, nextKey>>
       ELSE LET k == nextKey + 1
                entry == [present |-> TRUE, encrypted |-> FALSE,
                          rsa |-> 0, aes |-> ""]
            IN /\ sockets' = generate_key_data(
                                 [sockets EXCEPT ![p] = entry], p, k)
               /\ nextKey' = k
               /\ toClient' = [toClient EXCEPT ![p] = Append(@, Public(k))]
               /\ trace' = [trace EXCEPT
                              ![p] = @ \o <<Ev("keygen", "agent", FALSE,
                                               Public(k)),
                                            Ev("frame", "agent", FALSE,
                                               Public(k))>>]
               /\ handler' = [handler EXCEPT
                                ![p] = Handler("key", "check", <<>>)]
               /\ UNCHANGED closed
    /\ UNCHANGED <<syncVars, fhVars, runVars, enrVars, tlsVars,
                 cfgVars,
                 plgVars, crcVars, agtVars>>
    /\ UNCHANGED <<authenticate_clients, whitelisted_addresses, messages,
                   client, toAgent>>

\* where the handler is after receive_on_socket returned None: the
\* handshake cannot unpack it and raises, the message loop stops
after_none(h) ==
    [h EXCEPT !.stage = IF h.stage = "loop" THEN "done" ELSE "crashed"]

\* receive_on_socket, the test before the read: at EOF the writer is
\* closed and the peer's entry deleted
receive_at_eof(p) ==
    /\ handler[p].stage \in {"key", "test", "loop"}
    /\ handler[p].phase = "check"
    /\ IF at_eof(p)
       THEN /\ closed' = [closed EXCEPT ![p].agent = TRUE]
            /\ sockets' = [sockets EXCEPT ![p] = NoEntry]
            /\ handler' = [handler EXCEPT ![p] = after_none(@)]
       ELSE /\ handler' = [handler EXCEPT ![p].phase = "read"]
            /\ UNCHANGED <<closed, sockets>>
    /\ UNCHANGED <<syncVars, fhVars, runVars, enrVars, tlsVars,
                 cfgVars,
                 plgVars, crcVars, agtVars>>
    /\ UNCHANGED <<authenticate_clients, whitelisted_addresses, messages,
                   client, toAgent, toClient, trace, nextKey>>

\* the test of the response without the fill
response_matches_text(response, random) ==
    response.text = "TestEncryptionMessageResponse"

\* the test of the response in encrypt_socket
response_matches(response, random) ==
    /\ response.text = "TestEncryptionMessageResponse"
    /\ response.fill = Reverse(random)

\* encrypt_socket after the first receive: the AES key decrypted and the
\* test message sent
encrypt_socket_key(p, f) ==
    LET aeskey == decrypt_data(sockets[p].rsa, f) IN
    IF aeskey = "<raised>"
    THEN /\ handler' = [handler EXCEPT ![p].stage = "crashed"]
         /\ UNCHANGED <<sockets, toClient, trace, messages>>
    ELSE \E random \in Fills :
           LET test_msg == Msg("TestEncryptionMessage", random)
               encrypted_test_msg == encrypt_aes_data(aeskey, test_msg)
           IN /\ sockets' = [sockets EXCEPT ![p].aes = aeskey]
              /\ toClient' = [toClient EXCEPT
                                ![p] = Append(@, encrypted_test_msg)]
              /\ trace' = [trace EXCEPT
                             ![p] = @ \o <<Ev("aeskey", "agent", FALSE, f),
                                           Ev("frame", "agent", FALSE,
                                              encrypted_test_msg)>>]
              /\ handler' = [handler EXCEPT
                               ![p] = Handler("test", "check", random)]
              /\ UNCHANGED messages

\* encrypt_socket after the second receive: the response tested
encrypt_socket_test(p, f) ==
    LET response == decrypt_aes_data(sockets[p].aes, f) IN
    IF response = Error
    THEN /\ handler' = [handler EXCEPT ![p].stage = "crashed"]
         /\ UNCHANGED <<sockets, toClient, trace, messages>>
    ELSE /\ IF response_matches(response, handler[p].random)
            THEN /\ sockets' = [sockets EXCEPT ![p].encrypted = TRUE]
                 /\ trace' = [trace EXCEPT
                                ![p] = Append(@, Ev("encrypted", "agent",
                                                    TRUE, f))]
            ELSE /\ trace' = [trace EXCEPT
                                ![p] = Append(@, Ev("mismatch", "agent",
                                                    FALSE, f))]
                 /\ UNCHANGED sockets
         /\ handler' = [handler EXCEPT ![p] = Handler("loop", "check", <<>>)]
         /\ UNCHANGED <<toClient, messages>>

\* the while loop of handle_client: the message is queued
handle_client_loop(p, f) ==
    LET message == IF sockets[p].encrypted
                   THEN decrypt_aes_data(sockets[p].aes, f)
                   ELSE raw(f)
    IN IF message = Error
       THEN /\ handler' = [handler EXCEPT ![p].stage = "crashed"]
            /\ UNCHANGED <<sockets, toClient, trace, messages>>
       ELSE /\ messages' = Append(messages, <<p, message>>)
            /\ trace' = [trace EXCEPT
                           ![p] = Append(@, Ev("queued", "agent",
                                               sockets[p].encrypted, f))]
            /\ handler' = [handler EXCEPT ![p].phase = "check"]
            /\ UNCHANGED <<sockets, toClient>>

\* receive_on_socket, the read: a frame up to the separator, or an
\* incomplete read when the peer has closed, which returns None and
\* leaves the peer's entry
receive_on_socket(p) ==
    /\ handler[p].stage \in {"key", "test", "loop"}
    /\ handler[p].phase = "read"
    /\ \/ /\ toAgent[p] # <<>>
          /\ toAgent' = [toAgent EXCEPT ![p] = Tail(@)]
          /\ LET f == Head(toAgent[p]) IN
             CASE handler[p].stage = "key" -> encrypt_socket_key(p, f)
               [] handler[p].stage = "test" -> encrypt_socket_test(p, f)
               [] OTHER -> handle_client_loop(p, f)
       \/ /\ toAgent[p] = <<>>
          /\ closed[p].client
          /\ handler' = [handler EXCEPT ![p] = after_none(@)]
          /\ UNCHANGED <<sockets, toClient, trace, messages, toAgent>>
    /\ UNCHANGED <<syncVars, fhVars, runVars, enrVars, tlsVars,
                 cfgVars,
                 plgVars, crcVars, agtVars>>
    /\ UNCHANGED <<authenticate_clients, whitelisted_addresses, client,
                   closed, nextKey>>

\* receive_message then send_reply: the server takes the oldest message
\* and answers it on the peer's socket, encrypted when the socket is
\* marked so; a peer without entry raises KeyError and gets nothing
send_reply ==
    /\ messages # <<>>
    /\ messages' = Tail(messages)
    /\ LET context == Head(messages)[1] IN
       IF sockets[context].present
       THEN LET reply == IF sockets[context].encrypted
                         THEN encrypt_aes_data(sockets[context].aes, Reply)
                         ELSE plain(Reply)
            IN /\ toClient' = [toClient EXCEPT ![context] = Append(@, reply)]
               /\ trace' = [trace EXCEPT
                              ![context] = Append(@, Ev("frame", "agent",
                                                  sockets[context].encrypted,
                                                  reply))]
       ELSE UNCHANGED <<toClient, trace>>
    /\ UNCHANGED <<syncVars, fhVars, runVars, enrVars, tlsVars,
                 cfgVars,
                 plgVars, crcVars, agtVars>>
    /\ UNCHANGED <<authenticate_clients, whitelisted_addresses, sockets,
                   handler, client, toAgent, closed, nextKey>>

\* SocketClientTransport.send_message without the wait for the reply
send_message(c, m) ==
    IF c.encrypted THEN encrypt_aes_data(c.aeskey, m) ELSE plain(m)

\* wait_for_message when the agent has closed: exit(repr(e))
wait_for_message_eof(p) ==
    /\ client[p].pc \in {"wait_pub", "wait_test", "wait_reply"}
    /\ toClient[p] = <<>>
    /\ closed[p].agent
    /\ client' = [client EXCEPT ![p].pc = "exited"]
    /\ closed' = [closed EXCEPT ![p].client = TRUE]
    /\ UNCHANGED <<syncVars, fhVars, runVars, enrVars, tlsVars,
                 cfgVars,
                 plgVars, crcVars, agtVars>>
    /\ UNCHANGED <<authenticate_clients, whitelisted_addresses, sockets,
                   messages, handler, toAgent, toClient, trace, nextKey>>

\* setup_encryption up to the AES key sent under the public key received
setup_encryption_key(p) ==
    /\ client[p].pc = "wait_pub"
    /\ toClient[p] # <<>>
    /\ LET rsa_public_key == Head(toClient[p])
           aeskey == "aes_keeper"
           encrypted_aes_key == encrypt_data(rsa_public_key, aeskey)
       IN /\ toClient' = [toClient EXCEPT ![p] = Tail(@)]
          /\ IF rsa_public_key.kind # "public_key"
             THEN /\ client' = [client EXCEPT ![p].pc = "exited"]
                  /\ closed' = [closed EXCEPT ![p].client = TRUE]
                  /\ UNCHANGED <<toAgent, trace>>
             ELSE /\ client' = [client EXCEPT ![p].pc = "wait_test",
                                              ![p].aeskey = aeskey]
                  /\ toAgent' = [toAgent EXCEPT
                                   ![p] = Append(@, encrypted_aes_key)]
                  /\ trace' = [trace EXCEPT
                                 ![p] = Append(@, Ev("frame", "client",
                                                FALSE, encrypted_aes_key))]
                  /\ UNCHANGED closed
    /\ UNCHANGED <<syncVars, fhVars, runVars, enrVars, tlsVars,
                 cfgVars,
                 plgVars, crcVars, agtVars>>
    /\ UNCHANGED <<authenticate_clients, whitelisted_addresses, sockets,
                   messages, handler, nextKey>>

\* setup_encryption from the test message received to the response sent
setup_encryption_test(p) ==
    /\ client[p].pc = "wait_test"
    /\ toClient[p] # <<>>
    /\ LET test_message == Head(toClient[p])
           decrypted_test_message ==
               decrypt_aes_data(client[p].aeskey, test_message)
       IN /\ toClient' = [toClient EXCEPT ![p] = Tail(@)]
          /\ IF \/ decrypted_test_message = Error
                \/ decrypted_test_message.text # "TestEncryptionMessage"
             THEN /\ client' = [client EXCEPT ![p].pc = "exited"]
                  /\ closed' = [closed EXCEPT ![p].client = TRUE]
                  /\ UNCHANGED <<toAgent, trace>>
             ELSE LET c == [client[p] EXCEPT !.encrypted = TRUE,
                                             !.pc = "ready"]
                      reversed_fill == Reverse(decrypted_test_message.fill)
                      msg == Msg("TestEncryptionMessageResponse",
                                 reversed_fill)
                  IN /\ client' = [client EXCEPT ![p] = c]
                     /\ toAgent' = [toAgent EXCEPT
                                      ![p] = Append(@, send_message(c, msg))]
                     /\ trace' = [trace EXCEPT
                                    ![p] = Append(@, Ev("frame", "client",
                                                c.encrypted,
                                                send_message(c, msg)))]
                     /\ UNCHANGED closed
    /\ UNCHANGED <<syncVars, fhVars, runVars, enrVars, tlsVars,
                 cfgVars,
                 plgVars, crcVars, agtVars>>
    /\ UNCHANGED <<authenticate_clients, whitelisted_addresses, sockets,
                   messages, handler, nextKey>>

\* the keeper sends a request and waits for the reply
KeeperRequest(p) ==
    /\ client[p].pc = "ready"
    /\ client[p].sent < MaxRequests
    /\ client' = [client EXCEPT ![p].pc = "wait_reply", ![p].sent = @ + 1]
    /\ toAgent' = [toAgent EXCEPT
                     ![p] = Append(@, send_message(client[p], Request))]
    /\ trace' = [trace EXCEPT
                   ![p] = Append(@, Ev("frame", "client", client[p].encrypted,
                                       send_message(client[p], Request)))]
    /\ UNCHANGED <<syncVars, fhVars, runVars, enrVars, tlsVars,
                 cfgVars,
                 plgVars, crcVars, agtVars>>
    /\ UNCHANGED <<authenticate_clients, whitelisted_addresses, sockets,
                   messages, handler, toClient, closed, nextKey>>

\* wait_for_message: the reply, decrypted when the channel is encrypted
wait_for_message(p) ==
    /\ client[p].pc = "wait_reply"
    /\ toClient[p] # <<>>
    /\ LET f == Head(toClient[p])
           message == IF client[p].encrypted
                      THEN decrypt_aes_data(client[p].aeskey, f)
                      ELSE raw(f)
       IN /\ toClient' = [toClient EXCEPT ![p] = Tail(@)]
          /\ IF message = Error
             THEN /\ client' = [client EXCEPT ![p].pc = "exited"]
                  /\ closed' = [closed EXCEPT ![p].client = TRUE]
             ELSE /\ client' = [client EXCEPT ![p].pc = "ready"]
                  /\ UNCHANGED closed
    /\ UNCHANGED <<syncVars, fhVars, runVars, enrVars, tlsVars,
                 cfgVars,
                 plgVars, crcVars, agtVars>>
    /\ UNCHANGED <<authenticate_clients, whitelisted_addresses, sockets,
                   messages, handler, toAgent, trace, nextKey>>

\* close_socket: write_eof and close
close_socket(p) ==
    /\ client[p].pc \in {"ready", "open"}
    /\ client' = [client EXCEPT ![p].pc = "closed"]
    /\ closed' = [closed EXCEPT ![p].client = TRUE]
    /\ UNCHANGED <<syncVars, fhVars, runVars, enrVars, tlsVars,
                 cfgVars,
                 plgVars, crcVars, agtVars>>
    /\ UNCHANGED <<authenticate_clients, whitelisted_addresses, sockets,
                   messages, handler, toAgent, toClient, trace, nextKey>>

\* the frames the agent wrote on the connection so far
AgentFrames(tr) ==
    { i \in 1..Len(tr) : tr[i].ev = "frame" /\ tr[i].from = "agent" }

\* what the other client may write, in this order and each step at most
\* once: a session key for the public key it was sent, a right or a wrong
\* response to the test message it was sent, a request in the clear
OtherKinds == {"key", "response", "wrong_fill", "wrong_text", "request"}

Step(kind) ==
    CASE kind = "key" -> {"key"}
      [] kind = "request" -> {"key", "response", "wrong_fill", "wrong_text",
                              "request"}
      [] OTHER -> {"key", "response", "wrong_fill", "wrong_text"}

\* the kinds left to a client that has used some
OtherLeft(used) ==
    { kind \in OtherKinds \ used :
        \A u \in used : u \in Step(kind) /\ kind \notin Step(u) }

OtherFrame(kind, tr) ==
    LET pubs == { i \in AgentFrames(tr) : tr[i].frame.kind = "public_key" }
        tests == { i \in AgentFrames(tr) :
                     tr[i].frame.text = "TestEncryptionMessage" }
        aes == "aes_other"
    IN CASE kind = "key" ->
              { encrypt_data(tr[i].frame, aes) : i \in pubs }
         [] kind = "response" ->
              { encrypt_aes_data(aes, Msg("TestEncryptionMessageResponse",
                                          Reverse(tr[i].frame.fill))) :
                  i \in tests }
         [] kind = "wrong_fill" ->
              { encrypt_aes_data(aes, Msg("TestEncryptionMessageResponse",
                                          tr[i].frame.fill)) : i \in tests }
         [] kind = "wrong_text" ->
              { encrypt_aes_data(aes, Msg("TestEncryptionMessage",
                                          Reverse(tr[i].frame.fill))) :
                  i \in tests }
         [] OTHER -> { plain(Request) }

\* a client that is not the keeper's transport writes a frame
OtherSend(p) ==
    /\ p # Keeper
    /\ client[p].pc = "open"
    /\ \E kind \in OtherLeft(client[p].used) :
       \E f \in OtherFrame(kind, trace[p]) :
          /\ client' = [client EXCEPT ![p].used = @ \cup {kind}]
          /\ toAgent' = [toAgent EXCEPT ![p] = Append(@, f)]
          /\ trace' = [trace EXCEPT
                         ![p] = Append(@, Ev("frame", "client", FALSE, f))]
    /\ UNCHANGED <<syncVars, fhVars, runVars, enrVars, tlsVars,
                 cfgVars,
                 plgVars, crcVars, agtVars>>
    /\ UNCHANGED <<authenticate_clients, whitelisted_addresses, sockets,
                   messages, handler, toClient, closed, nextKey>>

\* nothing connected yet; the agent's settings are those of its start
InitNet(auths, lists) ==
    /\ authenticate_clients \in auths
    /\ whitelisted_addresses \in lists
    /\ sockets = [p \in Peers |-> NoEntry]
    /\ messages = <<>>
    /\ handler = [p \in Peers |-> Handler("none", "check", <<>>)]
    /\ client = [p \in Peers |->
                    [pc |-> "init", aeskey |-> "", encrypted |-> FALSE,
                     sent |-> 0, used |-> {}]]
    /\ toAgent = [p \in Peers |-> <<>>]
    /\ toClient = [p \in Peers |-> <<>>]
    /\ trace = [p \in Peers |-> <<>>]
    /\ closed = [p \in Peers |-> [client |-> FALSE, agent |-> FALSE]]
    /\ nextKey = 0

IdleNet == InitNet({FALSE}, {{}})

NextNet ==
    \/ \E p \in Peers : Connect(p)
    \/ \E p \in Peers : handle_client(p)
    \/ \E p \in Peers : receive_at_eof(p)
    \/ \E p \in Peers : receive_on_socket(p)
    \/ send_reply
    \/ \E p \in Peers : wait_for_message_eof(p)
    \/ \E p \in Peers : setup_encryption_key(p)
    \/ \E p \in Peers : setup_encryption_test(p)
    \/ \E p \in Peers : KeeperRequest(p)
    \/ \E p \in Peers : wait_for_message(p)
    \/ \E p \in Peers : close_socket(p)
    \/ \E p \in Peers : OtherSend(p)


(***************************************************************************)
(* The task pipeline (fluxkeeper.py run_agents_async, helpers.py           *)
(* manage_transport and handle_connection)                                 *)
(*                                                                         *)
(* A task is its name and whether it has a func: build_task gives one,     *)
(* the FluxTask("enroll_subordinates") of set_default_tasks has none.      *)
(* What an agent's node and task bodies will do in the cycle is fixed at   *)
(* its start: the node accepts the connection, refuses it with a failure   *)
(* symbol, or asks for a signature; the keyring holds the key of some      *)
(* addresses; a task body returns, raises or times out.                    *)
(***************************************************************************)
Agents == {"agent1", "agent2"}

NO_SOCKET == "NO_SOCKET"
AUTH_ADDRESS_REQUIRED == "AUTH_ADDRESS_REQUIRED"
AUTH_DENIED == "AUTH_DENIED"
PROXY_AUTH_ADDRESS_REQUIRED == "PROXY_AUTH_ADDRESS_REQUIRED"
PROXY_AUTH_DENIED == "PROXY_AUTH_DENIED"
TLS_ERROR == "TLS_ERROR"

AuthSymbols ==
    {AUTH_ADDRESS_REQUIRED, AUTH_DENIED, PROXY_AUTH_ADDRESS_REQUIRED,
     PROXY_AUTH_DENIED}

Fault(node, keys, accepts, body) ==
    [node |-> node, keys |-> keys, accepts |-> accepts, body |-> body]

AllKeys == {"auth_address", "proxy_auth_address"}

\* nothing fails
Ok == Fault("ok", AllKeys, TRUE, "returns")

Faults ==
    { Ok,
      Fault(NO_SOCKET, AllKeys, TRUE, "returns"),
      Fault(TLS_ERROR, AllKeys, TRUE, "returns"),
      Fault("ok", AllKeys, TRUE, "raises"),
      Fault("ok", AllKeys, TRUE, "timeout"),
      Fault(AUTH_DENIED, {}, TRUE, "returns"),
      Fault(AUTH_DENIED, AllKeys, FALSE, "returns") }
    \cup { Fault(s, AllKeys, TRUE, "returns") : s \in AuthSymbols }

\* helpers.FluxTask
FluxTask(name, func) == [name |-> name, func |-> func]

\* FluxAppManager.build_task for a method the manager has
build_task(name) == FluxTask(name, TRUE)

FILESERVER == "FILESERVER"
SINGLE_COMPONENT == "SINGLE_COMPONENT"
MULTI_COMPONENT == "MULTI_COMPONENT"
AppMode == {FILESERVER, SINGLE_COMPONENT, MULTI_COMPONENT}

\* list.insert(i, x), i counted from 0
list_insert(l, i, x) ==
    SubSeq(l, 1, i) \o <<x>> \o SubSeq(l, i + 1, Len(l))

\* FluxAppManager.set_default_tasks
set_default_tasks(app_mode) ==
    LET tasks0 == <<build_task("sync_objects"), build_task("set_mode"),
                    build_task("get_state")>>
        tasks1 == IF app_mode # FILESERVER
                  THEN list_insert(tasks0, 0,
                                   FluxTask("enroll_subordinates", FALSE))
                  ELSE tasks0
    IN IF app_mode = FILESERVER
       THEN list_insert(tasks1, 2, FluxTask("load_manifest", FALSE))
       ELSE tasks1

\* the tasks the short lists are made of
TaskPool == { build_task("sync_objects"),
              FluxTask("enroll_subordinates", FALSE) }

RECURSIVE TaskLists(_)
\* the task lists of 1 to n tasks
TaskLists(n) ==
    IF n = 0 THEN { <<>> }
    ELSE LET shorter == TaskLists(n - 1) IN
         (shorter \ { <<>> })
         \cup { Append(l, f) : l \in { k \in shorter : Len(k) = n - 1 },
                               f \in TaskPool }

\* the lists run when run_agents_async is called without tasks or targets
DefaultLists == { set_default_tasks(m) : m \in AppMode }

Runner(index, phase, disconnect) ==
    [index |-> index, phase |-> phase, disconnect |-> disconnect]

RunEv(ev, index, info) == [ev |-> ev, index |-> index, info |-> info]

\* a task started without waiting for the one before
may_start_any(phase) == phase \in {"loop", "in_task"}

\* res = await task.func(...): the loop goes on when the task has returned
may_start(phase) == phase = "loop"

\* the test at the head of the loop turned off
pipeline_terminated_never(t) == FALSE

\* if agent.transport.failed_on == NO_SOCKET: break
pipeline_terminated(t) == t.failed_on = NO_SOCKET

\* every failure answered with the key of auth_address
address_of_auth(failed_on) ==
    IF failed_on \in AuthSymbols THEN "auth_address" ELSE ""

\* handle_connection: the transport attribute that names the identity to
\* sign with, "" when the failure asks for none
address_of(failed_on) ==
    IF failed_on \in {AUTH_ADDRESS_REQUIRED, AUTH_DENIED}
    THEN "auth_address"
    ELSE IF failed_on \in {PROXY_AUTH_ADDRESS_REQUIRED, PROXY_AUTH_DENIED}
    THEN "proxy_auth_address"
    ELSE ""

\* the identity a node that asks for a signature wants signed
wanted(node) ==
    IF node \in {AUTH_ADDRESS_REQUIRED, AUTH_DENIED} THEN "auth_address"
    ELSE "proxy_auth_address"

\* transport.connect as the node of the agent lets it end
transport_connect(t, f) ==
    IF f.node = "ok"
    THEN [t EXCEPT !.connected = TRUE, !.failed_on = ""]
    ELSE IF f.node \in AuthSymbols /\ f.accepts
            /\ t.auth_provider = wanted(f.node)
    THEN [t EXCEPT !.connected = TRUE, !.failed_on = ""]
    ELSE [t EXCEPT !.connected = FALSE, !.failed_on = f.node]

\* the steps a connect call leaves in the log
connect_log(ev, index, t) ==
    <<RunEv(ev, index, "")>>
    \o (IF t.connected THEN <<RunEv("connect", index, "")>> ELSE <<>>)
    \o (IF t.failed_on = NO_SOCKET
        THEN <<RunEv("no_socket", index, "")>> ELSE <<>>)

\* handle_connection: the transport after it, the exception it raised if
\* any, and its steps
handle_connection(t, connect, f, index) ==
    LET t1 == IF connect THEN transport_connect(t, f) ELSE t
        log1 == IF connect THEN connect_log("attempt", index, t1) ELSE <<>>
        address == address_of(t1.failed_on)
        t2 == transport_connect([t1 EXCEPT !.auth_provider = address], f)
    IN IF t1.connected
       THEN [t |-> t1, raised |-> "", log |-> log1]
       ELSE IF t1.failed_on = NO_SOCKET
       THEN [t |-> t1, raised |-> "", log |-> log1]
       ELSE IF address = ""
       THEN [t |-> t1, raised |-> "AttributeError", log |-> log1]
       ELSE IF address \notin f.keys
       THEN [t |-> t1, raised |-> "FluxVaultKeyError",
             log |-> log1 \o <<RunEv("keyring", index, address),
                               RunEv("keyerror", index, address)>>]
       ELSE [t |-> t2, raised |-> "",
             log |-> log1 \o <<RunEv("keyring", index, address)>>
                         \o connect_log("retry", index, t2)]

\* the wrapper going on whatever the transport is
connection_failed_never(t) == FALSE

\* manage_transport: if not agent.transport.connected: return
connection_failed(t) == ~t.connected

\* one turn of the for loop of task_runner up to the call of the task's
\* body inside the manage_transport wrapper
task_runner(a) ==
    LET r == runner[a]
        length == Len(tasks[a])
        index == r.index
    IN
    /\ outcome = "running"
    /\ may_start(r.phase)
    /\ index < length
    /\ IF pipeline_terminated(transport[a])
       THEN /\ runner' = [runner EXCEPT ![a].phase = "returned"]
            /\ UNCHANGED <<transport, runlog, results, outcome>>
       ELSE IF ~tasks[a][index + 1].func
       THEN /\ runner' = [runner EXCEPT ![a].index = index + 1]
            /\ UNCHANGED <<transport, runlog, results, outcome>>
       ELSE LET connect == index = 0 /\ ~transport[a].connected
                disconnect == index + 1 = length /\ ~stay_connected
                hc == handle_connection(transport[a], connect, fault[a],
                                        index)
                log == <<RunEv("call", index, "")>> \o hc.log
            IN /\ transport' = [transport EXCEPT ![a] = hc.t]
               /\ IF hc.raised # ""
                  THEN /\ outcome' = "exited"
                       /\ runlog' = [runlog EXCEPT ![a] = @ \o log]
                       /\ UNCHANGED <<runner, results>>
                  ELSE IF connection_failed(hc.t)
                  THEN /\ runner' = [runner EXCEPT ![a].index = index + 1]
                       /\ results' = [results EXCEPT ![a] = @ \cup {index}]
                       /\ runlog' = [runlog EXCEPT ![a] = @ \o log]
                       /\ UNCHANGED outcome
                  ELSE /\ runner' = [runner EXCEPT
                                       ![a] = Runner(index, "in_task",
                                                     disconnect)]
                       /\ runlog' = [runlog EXCEPT
                                       ![a] = @ \o log
                                              \o <<RunEv("start", index,
                                                         "")>>]
                       /\ UNCHANGED <<results, outcome>>
    /\ UNCHANGED <<stay_connected, tasks, fault>>
    /\ UNCHANGED <<syncVars, fhVars, netVars, enrVars, tlsVars, cfgVars,
                   plgVars, crcVars, agtVars>>

\* an RPC of the task's body timed out: the transport is marked
rpc_timeout(t) == [t EXCEPT !.connected = FALSE, !.failed_on = NO_SOCKET]

\* the rest of the manage_transport wrapper: the task's body returns and
\* the transport is disconnected when asked, or the body raises and the
\* wrapper calls exit(0)
manage_transport(a) ==
    LET r == runner[a]
        t == IF fault[a].body = "timeout" THEN rpc_timeout(transport[a])
             ELSE transport[a]
    IN
    /\ outcome = "running"
    /\ r.phase = "in_task"
    /\ IF fault[a].body = "raises"
       THEN /\ outcome' = "exited"
            /\ UNCHANGED <<runner, transport, runlog, results>>
       ELSE /\ transport' = [transport EXCEPT
                               ![a] = IF r.disconnect
                                      THEN [t EXCEPT !.connected = FALSE]
                                      ELSE t]
            /\ runlog' = [runlog EXCEPT
                            ![a] = @ \o (IF fault[a].body = "timeout"
                                         THEN <<RunEv("no_socket", r.index,
                                                      "")>>
                                         ELSE <<>>)
                                   \o (IF r.disconnect
                                       THEN <<RunEv("disconnect", r.index,
                                                    "")>>
                                       ELSE <<>>)
                                   \o <<RunEv("end", r.index, "")>>]
            /\ results' = [results EXCEPT ![a] = @ \cup {r.index}]
            /\ runner' = [runner EXCEPT
                            ![a] = Runner(r.index + 1, "loop", FALSE)]
            /\ UNCHANGED outcome
    /\ UNCHANGED <<stay_connected, tasks, fault>>
    /\ UNCHANGED <<syncVars, fhVars, netVars, enrVars, tlsVars, cfgVars,
                   plgVars, crcVars, agtVars>>

\* the for loop of task_runner is over: return {agent.id: results}
task_runner_return(a) ==
    /\ outcome = "running"
    /\ runner[a].phase = "loop"
    /\ runner[a].index = Len(tasks[a])
    /\ runner' = [runner EXCEPT ![a].phase = "returned"]
    /\ UNCHANGED <<stay_connected, tasks, transport, fault, runlog, results,
                   outcome>>
    /\ UNCHANGED <<syncVars, fhVars, netVars, enrVars, tlsVars, cfgVars,
                   plgVars, crcVars, agtVars>>

\* asyncio.gather has every runner's result: run_agents_async returns
run_agents_async ==
    /\ outcome = "running"
    /\ \A a \in Agents : runner[a].phase = "returned"
    /\ outcome' = "returned"
    /\ UNCHANGED <<stay_connected, tasks, runner, transport, fault, runlog,
                   results>>
    /\ UNCHANGED <<syncVars, fhVars, netVars, enrVars, tlsVars, cfgVars,
                   plgVars, crcVars, agtVars>>

\* a transport never connected
FreshTransport ==
    [connected |-> FALSE, failed_on |-> "", auth_provider |-> ""]

\* a cycle about to start: every transport fresh, every runner at index 0
InitRun(lists, faults) ==
    /\ stay_connected \in BOOLEAN
    /\ tasks \in [Agents -> lists]
    /\ fault \in [Agents -> faults]
    /\ runner = [a \in Agents |-> Runner(0, "loop", FALSE)]
    /\ transport = [a \in Agents |-> FreshTransport]
    /\ runlog = [a \in Agents |-> <<>>]
    /\ results = [a \in Agents |-> {}]
    /\ outcome = "running"

IdleRun ==
    /\ stay_connected = FALSE
    /\ tasks = [a \in Agents |-> <<>>]
    /\ fault = [a \in Agents |-> Ok]
    /\ runner = [a \in Agents |-> Runner(0, "returned", FALSE)]
    /\ transport = [a \in Agents |-> FreshTransport]
    /\ runlog = [a \in Agents |-> <<>>]
    /\ results = [a \in Agents |-> {}]
    /\ outcome = "returned"

NextRun ==
    \/ \E a \in Agents : task_runner(a)
    \/ \E a \in Agents : manage_transport(a)
    \/ \E a \in Agents : task_runner_return(a)
    \/ run_agents_async

(***************************************************************************)
(* Registration and enrollment of subordinates (registrar.py, fluxagent.py *)
(* get_subagents and install_cert, fluxkeeper.py build_agents and          *)
(* enroll_subordinates)                                                    *)
(*                                                                         *)
(* Two nodes run the app; the primary agent of the first node has a        *)
(* registrar and two subordinate components register with it.  The Keeper  *)
(* holds the list of its agents.                                           *)
(***************************************************************************)
AppName == "app"
Nodes == {"ip1", "ip2"}
RegistrarNode == "ip1"
Subs == {"web", "db"}

\* what a POST to the registrar meets: it answers, it answers with another
\* status than 202, it does not answer in time, it cannot be connected
RegistrarStates == {"up", "busy", "slow", "down"}

\* RPCClient.id: (app.name, ip, component_name)
AgentId(address, component) ==
    [app |-> AppName, address |-> address, component |-> component]

\* FluxSubAgent.dns_name on a flux node
dns_name(s) == <<"flux", s, AppName>>

\* FluxSubAgent.as_dict, the fields the registrar and the Keeper read
as_dict(s, enrolled) == [dns_name |-> dns_name(s), enrolled |-> enrolled]

\* handle_update appending nothing
handle_update_none(list, data) == list

\* FluxAgentRegistrar.handle_update
handle_update(list, data) == Append(list, data)

\* FluxAgentRegistrar.handle_register
handle_register(list, data) == Append(list, data)

RECURSIVE Keys(_)
\* the keys of {v.dns_name: ... for v in list}, in the order of insertion
Keys(list) ==
    IF list = <<>> THEN <<>>
    ELSE LET front == Keys(SubSeq(list, 1, Len(list) - 1))
             k == list[Len(list)].dns_name
         IN IF \E i \in 1..Len(front) : front[i] = k THEN front
            ELSE Append(front, k)

\* the value of the key: the entry of the list inserted last wins
LastOf(list, k) ==
    list[CHOOSE i \in 1..Len(list) :
            /\ list[i].dns_name = k
            /\ \A j \in (i + 1)..Len(list) : list[j].dns_name # k]

\* FluxAgent.get_subagents: the targets in order and the payload of each
get_subagents(list) ==
    [targets |-> Keys(list),
     payload |-> [k \in { list[i].dns_name : i \in 1..Len(list) }
                    |-> LastOf(list, k)]]

\* the subordinate a dns name stands for
SubOf(k) == CHOOSE s \in Subs : dns_name(s) = k

\* set(list)
set(list) == { list[i] : i \in 1..Len(list) }

\* FluxAppManager.agent_ips
agent_ips(list) == { list[i].address : i \in 1..Len(list) }

RECURSIVE SelectIp(_, _)
\* FluxAppManager.remove: the agents whose id[1] is not among the ips
SelectIp(list, ips) ==
    IF list = <<>> THEN <<>>
    ELSE (IF Head(list).address \in ips THEN <<>> ELSE <<Head(list)>>)
         \o SelectIp(Tail(list), ips)

RECURSIVE AddAll(_, _)
\* FluxAppManager.add for every ip of the set
AddAll(list, ips) ==
    IF ips = {} THEN list
    ELSE LET ip == CHOOSE i \in ips : TRUE
         IN AddAll(Append(list, AgentId(ip, "fluxagent")), ips \ {ip})

\* the ports a node of an address may answer on
NodePorts == {"16127", "16137"}

\* an entry of the location list of the Flux API: "ip:port"
NodeEntry(ip, port) == <<ip, ":", port>>

\* what the Flux API may answer for the app's locations
ApiAnswers ==
    LET entries == { NodeEntry(ip, port) : ip \in Nodes, port \in NodePorts }
    IN { [status |-> st, data |-> d] :
           st \in {"success", "error"},
           d \in { <<>> } \cup { <<e>> : e \in entries }
                 \cup { <<e, f>> : e \in entries, f \in entries } }

\* node["ip"].split(":")[0]
split_ip(entry) ==
    LET colon == CHOOSE i \in 1..Len(entry) :
                    /\ entry[i] = ":"
                    /\ \A j \in 1..(i - 1) : entry[j] # ":"
    IN SubSeq(entry, 1, colon - 1)[1]

\* FluxAppManager.get_fluxnode_ips on the answer of the API: the list of
\* addresses, empty unless the status is success
get_fluxnode_ips(answer) ==
    IF answer.status = "success"
    THEN [i \in 1..Len(answer.data) |-> split_ip(answer.data[i])]
    ELSE <<>>

\* agents at the extra addresses stay in the list
remove_none(list, ips) == list

\* for ip in extra: self.remove(ip)
remove(list, ips) == SelectIp(list, ips)

\* one round of the loop of build_agents with the addresses fetched
build_agents(fluxnode_ips) ==
    /\ keeper = "running"
    /\ node_ips' = fluxnode_ips
    /\ IF fluxnode_ips = {}
       THEN UNCHANGED agents
       ELSE LET missing == fluxnode_ips \ agent_ips(agents)
                extra == agent_ips(agents) \ fluxnode_ips
            IN agents' = AddAll(remove(agents, extra), missing)
    /\ UNCHANGED <<sub_agents, sub, registrar, history, cycles, keeper>>
    /\ UNCHANGED <<syncVars, fhVars, netVars, runVars, tlsVars, cfgVars,
                   plgVars, crcVars, agtVars>>

\* the steps of enroll_agent(self, agent) on a connected transport
EnrollSteps == <<"generate_csr", "sign_csr", "install_cert",
                 "install_ca_cert">>

\* the manage_transport wrapper around enroll_agent called with nargs
\* positional arguments: nothing is done on a transport that does not
\* connect, the call of the function raises TypeError when it is given
\* more than self and the agent
enroll_agent(nargs, connected) ==
    IF ~connected THEN [steps |-> <<"no_socket">>, raised |-> FALSE]
    ELSE IF nargs # 2 THEN [steps |-> <<"connect">>, raised |-> TRUE]
    ELSE [steps |-> <<"connect">> \o EnrollSteps, raised |-> FALSE]

RECURSIVE EnrollLoop(_, _, _, _)
\* the for loop of enroll_subordinates over the targets left, conn telling
\* which subordinates the proxy connection reaches
EnrollLoop(targets, resp, conn, acc) ==
    IF targets = <<>> \/ acc.exited THEN acc
    ELSE LET target == Head(targets)
             s == SubOf(target)
             res == enroll_agent(4, conn[s])
             flux_agent == AgentId(RegistrarNode, s)
         IN IF resp.payload[target].enrolled
            THEN EnrollLoop(Tail(targets), resp, conn, acc)
            ELSE EnrollLoop(
                   Tail(targets), resp, conn,
                   [agents |-> IF res.raised THEN acc.agents
                               ELSE Append(acc.agents, flux_agent),
                    history |-> [acc.history EXCEPT ![s] = @ \o res.steps],
                    exited |-> res.raised])

\* enroll_subordinates run on the primary agent of the registrar's node
enroll_subordinates(conn) ==
    /\ keeper = "running"
    /\ cycles < MaxCycles
    /\ \E i \in 1..Len(agents) :
          agents[i] = AgentId(RegistrarNode, "fluxagent")
    /\ LET resp == get_subagents(sub_agents)
           out == EnrollLoop(resp.targets, resp, conn,
                             [agents |-> agents, history |-> history,
                              exited |-> FALSE])
       IN /\ agents' = out.agents
          /\ history' = out.history
          /\ keeper' = IF out.exited THEN "exited" ELSE "running"
    /\ cycles' = cycles + 1
    /\ UNCHANGED <<sub_agents, sub, registrar, node_ips>>
    /\ UNCHANGED <<syncVars, fhVars, netVars, runVars, tlsVars, cfgVars,
                   plgVars, crcVars, agtVars>>

\* any answer taken for the registration
registered_on_any(status) == TRUE

\* if resp.status == 202: registered = True
registered_on(status) == status = 202

\* one turn of the while loop of register_with_primary_agent: the POST is
\* answered with 202, answered with another status, or ends in a timeout
\* or a connection error and the subordinate sleeps
register_with_primary_agent(s) ==
    /\ sub[s].pc = "posting"
    /\ \/ /\ registrar = "up"
          /\ sub_agents' = handle_register(sub_agents, as_dict(s, FALSE))
          /\ sub' = [sub EXCEPT ![s].pc = IF registered_on(202)
                                          THEN "registered" ELSE "posting"]
       \/ /\ registrar = "busy"
          /\ sub' = [sub EXCEPT ![s].pc = IF registered_on(503)
                                          THEN "registered" ELSE "posting",
                                ![s].retried = TRUE]
          /\ UNCHANGED sub_agents
       \/ /\ registrar = "slow"
          /\ \/ UNCHANGED sub_agents
             \/ /\ Len(sub_agents) < MaxEntries
                /\ sub_agents' = handle_register(sub_agents,
                                                 as_dict(s, FALSE))
          /\ sub' = [sub EXCEPT ![s].pc = "sleeping", ![s].retried = TRUE]
       \/ /\ registrar = "down"
          /\ sub' = [sub EXCEPT ![s].pc = "sleeping", ![s].retried = TRUE]
          /\ UNCHANGED sub_agents
    /\ UNCHANGED <<agents, registrar, history, cycles, keeper, node_ips>>
    /\ UNCHANGED <<syncVars, fhVars, netVars, runVars, tlsVars, cfgVars,
                   plgVars, crcVars, agtVars>>

\* await asyncio.sleep(5) is over
retry_sleep(s) ==
    /\ sub[s].pc = "sleeping"
    /\ sub' = [sub EXCEPT ![s].pc = "posting"]
    /\ UNCHANGED <<agents, sub_agents, registrar, history, cycles, keeper,
                   node_ips>>
    /\ UNCHANGED <<syncVars, fhVars, netVars, runVars, tlsVars, cfgVars,
                   plgVars, crcVars, agtVars>>

\* FluxSubAgent.update_local_agent(enrolled=True), the last statement of
\* FluxAgent.install_cert on a subordinate: the flag is set and /update is
\* posted once, a timeout or connection error of the POST is logged and
\* dropped
update_local_agent(s) ==
    /\ sub[s].pc = "registered"
    /\ Len(sub_agents) < MaxEntries
    /\ \/ /\ registrar = "up"
          /\ sub_agents' = handle_update(sub_agents, as_dict(s, TRUE))
          /\ sub' = [sub EXCEPT ![s].enrolled = TRUE, ![s].posted = TRUE]
          /\ history' = [history EXCEPT ![s] = Append(@, "update")]
       \/ /\ registrar = "slow"
          /\ sub_agents' = handle_update(sub_agents, as_dict(s, TRUE))
          /\ sub' = [sub EXCEPT ![s].enrolled = TRUE]
          /\ UNCHANGED history
       \/ /\ registrar # "up"
          /\ sub' = [sub EXCEPT ![s].enrolled = TRUE]
          /\ UNCHANGED <<sub_agents, history>>
    /\ UNCHANGED <<agents, registrar, cycles, keeper, node_ips>>
    /\ UNCHANGED <<syncVars, fhVars, netVars, runVars, tlsVars, cfgVars,
                   plgVars, crcVars, agtVars>>

\* the registrar of the primary agent starts, stalls or stops answering
registrar_changes(state) ==
    /\ registrar # state
    /\ registrar' = state
    /\ UNCHANGED <<agents, sub_agents, sub, history, cycles, keeper,
                   node_ips>>
    /\ UNCHANGED <<syncVars, fhVars, netVars, runVars, tlsVars, cfgVars,
                   plgVars, crcVars, agtVars>>

\* the Keeper has no agent, no subordinate has registered
InitEnroll ==
    /\ agents = <<>>
    /\ sub_agents = <<>>
    /\ sub = [s \in Subs |->
                [pc |-> "posting", enrolled |-> FALSE, posted |-> FALSE,
                 retried |-> FALSE]]
    /\ registrar \in RegistrarStates
    /\ history = [s \in Subs |-> <<>>]
    /\ cycles = 0
    /\ keeper = "running"
    /\ node_ips = {}

IdleEnroll ==
    /\ agents = <<>>
    /\ sub_agents = <<>>
    /\ sub = [s \in Subs |->
                [pc |-> "registered", enrolled |-> FALSE, posted |-> FALSE,
                 retried |-> FALSE]]
    /\ registrar = "down"
    /\ history = [s \in Subs |-> <<>>]
    /\ cycles = MaxCycles
    /\ keeper = "exited"
    /\ node_ips = {}

NextEnroll ==
    \/ \E ips \in SUBSET Nodes : build_agents(ips)
    \/ \E conn \in [Subs -> BOOLEAN] : enroll_subordinates(conn)
    \/ \E s \in Subs : register_with_primary_agent(s)
    \/ \E s \in Subs : retry_sleep(s)
    \/ \E s \in Subs : update_local_agent(s)
    \/ \E state \in RegistrarStates : registrar_changes(state)

(***************************************************************************)
(* The listener of an agent and its upgrade to TLS (fluxagent.py           *)
(* generate_csr, install_cert, install_ca_cert, upgrade_to_ssl)            *)
(***************************************************************************)
BindPorts == {8888, 2000}
KeyIds == {"key1", "key2"}
CaIds == {"ca1", "ca2"}
Unset == "unset"
CERT_REQUIRED == "CERT_REQUIRED"

\* a certificate is made for one key
Cert(k) == <<"cert", k>>

\* ssl=None
NoContext ==
    [cert |-> Unset, key |-> Unset, ca |-> Unset, verify_mode |-> "none"]

\* the transport of the plaintext server made by the constructor
PlainTransport(port) == [port |-> port, ssl |-> NoContext]

\* the port of the upgraded listener left as it was
upgrade_port_same(port) == port

\* upgrade_to_ssl: self.bind_port + 1
upgrade_port(port) == port + 1

\* ssl.SSLContext(PROTOCOL_TLS_SERVER) with the chain and the CA loaded and
\* verify_mode set
SSLContext(c, k, ca) ==
    [cert |-> c, key |-> k, ca |-> ca, verify_mode |-> CERT_REQUIRED]

\* EncryptedSocketServerTransport.stop_server: the listener is closed
stop_server(ls, t) == ls \ {t}

\* FluxAgent.generate_csr: a new private key is kept
generate_csr(k) ==
    /\ agent_key' = k
    /\ UNCHANGED <<agent_cert, agent_ca, bind_port, rpc_server, listeners,
                   pending, upgraded>>
    /\ UNCHANGED <<syncVars, fhVars, netVars, runVars, enrVars, cfgVars,
                   plgVars, crcVars, agtVars>>

\* FluxAgent.install_cert: the certificate is kept
install_cert(c) ==
    /\ agent_cert' = c
    /\ UNCHANGED <<agent_key, agent_ca, bind_port, rpc_server, listeners,
                   pending, upgraded>>
    /\ UNCHANGED <<syncVars, fhVars, netVars, runVars, enrVars, cfgVars,
                   plgVars, crcVars, agtVars>>

\* FluxAgent.install_ca_cert
install_ca_cert(ca) ==
    /\ agent_ca' = ca
    /\ UNCHANGED <<agent_key, agent_cert, bind_port, rpc_server, listeners,
                   pending, upgraded>>
    /\ UNCHANGED <<syncVars, fhVars, netVars, runVars, enrVars, cfgVars,
                   plgVars, crcVars, agtVars>>

\* FluxAgent.upgrade_to_ssl, called over the server that is listening: it
\* raises before anything is changed when the key, the certificate or the
\* CA is not there or the certificate is not of the key; otherwise the
\* listening server is stopped and the serve_forever task of the new server
\* is created
upgrade_to_ssl ==
    /\ rpc_server \in listeners
    /\ IF Unset \in {agent_key, agent_cert, agent_ca}
          \/ agent_cert # Cert(agent_key)
       THEN UNCHANGED <<rpc_server, listeners, pending, upgraded>>
       ELSE LET context == SSLContext(agent_cert, agent_key, agent_ca)
                upgraded_transport == [port |-> upgrade_port(bind_port),
                              ssl |-> context]
            IN /\ listeners' = stop_server(listeners, rpc_server)
               /\ rpc_server' = upgraded_transport
               /\ pending' = pending \cup {upgraded_transport}
               /\ upgraded' = [done |-> TRUE, cert |-> agent_cert,
                               key |-> agent_key, ca |-> agent_ca]
    /\ UNCHANGED <<agent_key, agent_cert, agent_ca, bind_port>>
    /\ UNCHANGED <<syncVars, fhVars, netVars, runVars, enrVars, cfgVars,
                   plgVars, crcVars, agtVars>>

\* the task of rpc_server.serve_forever() starts: the server listens
serve_forever ==
    /\ \E t \in pending :
          /\ pending' = pending \ {t}
          /\ listeners' = listeners \cup {t}
    /\ UNCHANGED <<agent_key, agent_cert, agent_ca, bind_port, rpc_server,
                   upgraded>>
    /\ UNCHANGED <<syncVars, fhVars, netVars, runVars, enrVars, cfgVars,
                   plgVars, crcVars, agtVars>>

NotUpgraded ==
    [done |-> FALSE, cert |-> Unset, key |-> Unset, ca |-> Unset]

\* FluxAgent.run has created the task of the plaintext server
InitListener ==
    /\ bind_port \in BindPorts
    /\ agent_key = Unset
    /\ agent_cert = Unset
    /\ agent_ca = Unset
    /\ rpc_server = PlainTransport(bind_port)
    /\ listeners = {}
    /\ pending = {PlainTransport(bind_port)}
    /\ upgraded = NotUpgraded

IdleListener ==
    /\ bind_port = 8888
    /\ agent_key = Unset
    /\ agent_cert = Unset
    /\ agent_ca = Unset
    /\ rpc_server = PlainTransport(bind_port)
    /\ listeners = {}
    /\ pending = {}
    /\ upgraded = NotUpgraded

NextListener ==
    \/ \E k \in KeyIds : generate_csr(k)
    \/ \E k \in KeyIds : install_cert(Cert(k))
    \/ \E ca \in CaIds : install_ca_cert(ca)
    \/ upgrade_to_ssl
    \/ serve_forever

(***************************************************************************)
(* The components of an app configuration (fluxapp_config.py FluxAppConfig *)
(* add_component and ensure_included)                                      *)
(***************************************************************************)
ComponentNames == {"web", "db", "cache"}
WorkingDirs == {"/tmp", "/data"}
RootDir == <<"root">>

\* FluxComponentConfig(name) with the fields the operations read or set
FluxComponentConfig(name, remote_working_dir) ==
    [name |-> name, root_dir |-> <<>>,
     remote_working_dir |-> remote_working_dir]

\* the test for an existing component left out
existing_none(list, name) == {}

\* next(filter(lambda x: x.name == name, self.components), None): the
\* positions of the components of that name
existing(list, name) == { i \in 1..Len(list) : list[i].name = name }

\* FluxAppConfig.add_component as a function of the list
add(list, component) ==
    IF existing(list, component.name) # {} THEN list
    ELSE Append(list, [component EXCEPT
                         !.root_dir = Append(RootDir, component.name)])

LastAdd(op, name, existed, before) ==
    [op |-> op, name |-> name, existed |-> existed, before |-> before]

\* FluxAppConfig.add_component
add_component(component) ==
    /\ components' = add(components, component)
    /\ lastAdd' = LastAdd("add_component", component.name,
                          \E i \in 1..Len(components) :
                              components[i].name = component.name,
                          components)
    /\ UNCHANGED <<syncVars, fhVars, netVars, runVars, enrVars, tlsVars,
                   plgVars, crcVars, agtVars>>

\* FluxAppConfig.ensure_included
ensure_included(name) ==
    /\ components' = IF existing(components, name) = {}
                     THEN add(components, FluxComponentConfig(name, "/tmp"))
                     ELSE components
    /\ lastAdd' = LastAdd("ensure_included", name,
                          \E i \in 1..Len(components) :
                              components[i].name = name,
                          components)
    /\ UNCHANGED <<syncVars, fhVars, netVars, runVars, enrVars, tlsVars,
                   plgVars, crcVars, agtVars>>

\* FluxAppConfig(name): components is the empty list
InitConfig ==
    /\ components = <<>>
    /\ lastAdd = LastAdd("none", "", FALSE, <<>>)

IdleConfig == InitConfig

NextConfig ==
    \/ \E n \in ComponentNames, d \in WorkingDirs :
          add_component(FluxComponentConfig(n, d))
    \/ \E n \in ComponentNames : ensure_included(n)

(***************************************************************************)
(* Plugins of an agent (fluxagent.py load_plugins)                         *)
(***************************************************************************)
PluginNames == {"p1", "p2", "p3"}

\* a module file of the plugin directory: whether its import succeeds,
\* whether its plugin attribute is a FluxVaultExtensions, whether it
\* declares required packages and whether pip installs them
PluginFile(name, imports, extension, required, pip_ok) ==
    [name |-> name, imports |-> imports, extension |-> extension,
     required |-> required, pip_ok |-> pip_ok]

PluginFiles ==
    { PluginFile(n, i, e, r, p) :
        n \in PluginNames, i \in BOOLEAN, e \in BOOLEAN, r \in BOOLEAN,
        p \in BOOLEAN }

RECURSIVE PluginDirs(_)
\* os.listdir of the directory: up to n files of different names, in the
\* order the filesystem gives them
PluginDirs(n) ==
    IF n = 0 THEN { <<>> }
    ELSE LET shorter == PluginDirs(n - 1) IN
         shorter
         \cup { Append(l, f) :
                  l \in { k \in shorter : Len(k) = n - 1 },
                  f \in PluginFiles }

PlugEv(ev, name) == [ev |-> ev, name |-> name]

\* except subprocess.CalledProcessError: log.error(...); return
after_failed_install(acc) == [acc EXCEPT !.done = TRUE]

RECURSIVE plugin_loop(_, _)
\* the for loop of load_plugins over the modules left
plugin_loop(files, acc) ==
    IF files = <<>> \/ acc.done THEN acc
    ELSE LET f == Head(files) IN
         IF ~f.imports
         THEN \* the exception of the import is logged and plugin.plugin
              \* is read from a name that is unbound or stale
              [acc EXCEPT !.log = Append(@, PlugEv("import_error", f.name)),
                          !.done = TRUE, !.raised = TRUE]
         ELSE IF ~f.extension
         THEN plugin_loop(Tail(files),
                          [acc EXCEPT !.log = Append(@, PlugEv("load_error",
                                                               f.name))])
         ELSE IF f.required /\ ~f.pip_ok
         THEN plugin_loop(Tail(files),
                          after_failed_install(
                            [acc EXCEPT !.log = Append(@, PlugEv("pip_error",
                                                                 f.name))]))
         ELSE plugin_loop(
                Tail(files),
                [acc EXCEPT
                   !.log = @ \o (IF f.required
                                 THEN <<PlugEv("pip_install", f.name)>>
                                 ELSE <<>>)
                             \o <<PlugEv("add_plugin", f.name)>>,
                   !.plugins = Append(@, f.name)])

\* FluxAgent.load_plugins
load_plugins ==
    /\ plugin_outcome = "idle"
    /\ LET out == plugin_loop(plugin_dir,
                              [log |-> <<>>, plugins |-> <<>>,
                               done |-> FALSE, raised |-> FALSE])
       IN /\ plugin_log' = out.log
          /\ plugins' = out.plugins
          /\ plugin_outcome' = IF out.raised THEN "raised" ELSE "returned"
    /\ UNCHANGED plugin_dir
    /\ UNCHANGED <<syncVars, fhVars, netVars, runVars, enrVars, tlsVars,
                   cfgVars, crcVars, agtVars>>

\* an agent without plugins and a directory of modules
InitPlugins ==
    /\ plugin_dir \in { l \in PluginDirs(MaxPlugins) :
                          \A i, j \in 1..Len(l) :
                             l[i].name = l[j].name => i = j }
    /\ plugins = <<>>
    /\ plugin_log = <<>>
    /\ plugin_outcome = "idle"

IdlePlugins ==
    /\ plugin_dir = <<>>
    /\ plugins = <<>>
    /\ plugin_log = <<>>
    /\ plugin_outcome = "returned"

(***************************************************************************)
(* Construction of an agent (fluxagent.py FluxAgent.__init__,              *)
(* raise_on_state_errors, setup_registrar, get_auth_provider)              *)
(***************************************************************************)
\* the arguments of the constructor that decide the checks of peers, and
\* what the environment answers: whether the working directory can be
\* listed and the owner the Flux API names for the app
AgentArgs ==
    [signed_vault_connections : BOOLEAN,
     verify_source_address : BOOLEAN,
     whitelisted_addresses : {{}, {"127.0.0.1"}},
     zelid : {"", "zelid"},
     owner : {"", "owner"},
     working_dir : BOOLEAN,
     enable_registrar : BOOLEAN,
     registrar : BOOLEAN,
     subordinate : BOOLEAN,
     primary_agent : BOOLEAN]

\* "Must verify source address as a minimum": self.verify_source_address
verify_default(args) ==
    IF ~args.signed_vault_connections /\ ~args.verify_source_address
    THEN TRUE
    ELSE args.verify_source_address

\* FluxAgent.raise_on_state_errors: the exception raised, "" if none
raise_on_state_errors(args, verify) ==
    IF ~args.working_dir THEN "FluxAgentException"
    ELSE IF verify /\ args.whitelisted_addresses = {} THEN "ValueError"
    ELSE IF args.subordinate /\ ~args.primary_agent THEN "ValueError"
    ELSE ""

\* FluxAgent.setup_registrar: FluxAgentRegistrar() is called without the
\* app_name its constructor requires
setup_registrar(args) ==
    IF args.enable_registrar /\ ~args.registrar THEN "TypeError" ELSE ""

NoProvider == [address |-> "none"]

\* FluxAgent.get_auth_provider
get_auth_provider(args) ==
    IF args.signed_vault_connections
    THEN [address |-> IF args.zelid # "" THEN args.zelid ELSE args.owner]
    ELSE NoProvider

\* FluxAgent.__init__ up to the RPC server: the exception raised or the
\* server transport made.  The transport is handed the arguments
\* whitelisted_addresses and verify_source_address of the constructor,
\* not the attributes of self.
FluxAgent ==
    /\ agent_made = "none"
    /\ LET verify == verify_default(agent_args)
           state_error == raise_on_state_errors(agent_args, verify)
           registrar_error == setup_registrar(agent_args)
       IN IF state_error # ""
          THEN agent_made' = "raised" /\ UNCHANGED agent_transport
          ELSE IF registrar_error # ""
          THEN agent_made' = "raised" /\ UNCHANGED agent_transport
          ELSE /\ agent_made' = "made"
               /\ agent_transport' =
                    [whitelisted_addresses |->
                         agent_args.whitelisted_addresses,
                     verify_source_address |->
                         agent_args.verify_source_address,
                     auth_provider |-> get_auth_provider(agent_args)]
    /\ UNCHANGED agent_args
    /\ UNCHANGED <<syncVars, fhVars, netVars, runVars, enrVars, tlsVars,
                   cfgVars, plgVars, crcVars>>

NoTransport ==
    [whitelisted_addresses |-> {}, verify_source_address |-> FALSE,
     auth_provider |-> NoProvider]

InitAgent ==
    /\ agent_args \in AgentArgs
    /\ agent_made = "none"
    /\ agent_transport = NoTransport

IdleAgent ==
    /\ agent_args = [signed_vault_connections |-> FALSE,
                     verify_source_address |-> FALSE,
                     whitelisted_addresses |-> {"127.0.0.1"},
                     zelid |-> "", owner |-> "", working_dir |-> TRUE,
                     enable_registrar |-> FALSE, registrar |-> FALSE,
                     subordinate |-> FALSE, primary_agent |-> FALSE]
    /\ agent_made = "raised"
    /\ agent_transport = NoTransport

(***************************************************************************)
(* Path universe                                                           *)
(***************************************************************************)
\* bytes: names are one symbol long, file contents are strings over x, y;
\* the order is the lexical order of the lowercased strings
Alphabet == <<"a", "c", "d", "dir", "quotes.txt", "x", "y">>

Code(s) == CHOOSE i \in 1..Len(Alphabet) : Alphabet[i] = s

Base == Len(Alphabet) + 1

DirRemotePath == <<"remote", "dir">>
FileRemotePath == <<"app", "quotes.txt">>

\* every remote path of the universe, in absolute form
RemotePaths ==
    { DirRemotePath,
      DirRemotePath \o <<"a">>,
      DirRemotePath \o <<"c">>,
      DirRemotePath \o <<"c", "d">>,
      FileRemotePath }

\* managed_object.root(): the local staging root that mirrors "/"
FakeRoot == <<"fake_root">>

LocalPaths == { FakeRoot \o p : p \in RemotePaths }

Last(p) == p[Len(p)]

\* the kind an entry of the universe has when it exists
IsDirName(n) == n \in {"dir", "c"}

\* the contents a file of the universe can have, by name
ContentsOf(n) ==
    IF n \in {"a", "quotes.txt"} THEN { <<>>, <<"x">>, <<"y">> } ELSE { <<"x">> }

Contents == UNION { ContentsOf(Alphabet[i]) : i \in 1..Len(Alphabet) }

Absent == [kind |-> "absent", data |-> <<>>]
DirEntry == [kind |-> "dir", data |-> <<>>]
FileEntry(d) == [kind |-> "file", data |-> d]

(***************************************************************************)
(* The directory fold of Keeper and agent on one tree (fluxapp_config.py   *)
(* and fluxagent.py crc_file and crc_directory)                            *)
(*                                                                         *)
(* The tree is a directory "d" on a filesystem that tells names of         *)
(* different case apart; each side is handed the children of a directory   *)
(* in the order its filesystem enumerates them.  A CRC stands for the      *)
(* sequence of bytes folded into it.                                       *)
(***************************************************************************)
CaseNames == {"a", "A", "b"}
FoldRoot == <<"d">>
FoldPaths ==
    {FoldRoot} \cup { <<"d", n>> : n \in CaseNames }
    \cup { <<"d", "b", n>> : n \in {"a", "A"} }

\* str.lower
lower(n) == IF n = "A" THEN "a" ELSE n

\* the place of a lowered name in lexical order
lex(n) == IF n = "a" THEN 1 ELSE 2

\* the trees: files under "d", or under "d/b" when that is a directory
FoldTrees ==
    { fs \in [FoldPaths -> {Absent, DirEntry, FileEntry(<<"x">>),
                            FileEntry(<<"y">>)}] :
        /\ fs[FoldRoot] = DirEntry
        /\ \A n \in {"a", "A"} : fs[<<"d", n>>] # DirEntry
        /\ \A n \in {"a", "A"} :
              /\ fs[<<"d", "b", n>>] \in {Absent, FileEntry(<<"x">>)}
              /\ fs[<<"d", "b", n>>] # Absent => fs[<<"d", "b">>] = DirEntry }

\* the orders in which a filesystem may enumerate the names
Ranks ==
    { r \in [CaseNames -> 1..Cardinality(CaseNames)] :
        \A m, n \in CaseNames : r[m] = r[n] => m = n }

\* the children of a directory
Children(fs, directory) ==
    { p \in FoldPaths :
        /\ Len(p) = Len(directory) + 1
        /\ SubSeq(p, 1, Len(directory)) = directory
        /\ fs[p] # Absent }

RECURSIVE enumerate(_, _)
\* Path.iterdir: the children in the order of the filesystem
enumerate(S, rank) ==
    IF S = {} THEN <<>>
    ELSE LET p == CHOOSE q \in S :
                     \A o \in S : rank[Last(q)] <= rank[Last(o)]
         IN <<p>> \o enumerate(S \ {p}, rank)

\* key=lambda p: str(p).lower(), as its place among the keys of siblings
key_lower(p) == lex(lower(Last(p)))

\* one element put into a sorted list behind the elements of equal key
insert_sorted(l, p) ==
    LET before == { i \in 1..Len(l) : key_lower(l[i]) <= key_lower(p) }
        n == Cardinality(before)
    IN SubSeq(l, 1, n) \o <<p>> \o SubSeq(l, n + 1, Len(l))

RECURSIVE sorted_by_key(_, _)
\* sorted(iterable, key=...): stable, elements of equal key stay in the
\* order of the iterable
sorted_by_key(l, acc) ==
    IF l = <<>> THEN acc
    ELSE sorted_by_key(Tail(l), insert_sorted(acc, Head(l)))

\* binascii.crc32(data, crc) as the bytes folded so far
fold(data, crc) == crc \o data

RECURSIVE fold_directory(_, _, _, _)
RECURSIVE fold_children(_, _, _, _)
\* the for loop of FileSystemEntry.crc_directory
fold_children(fs, kids, crc, rank) ==
    IF kids = <<>> THEN crc
    ELSE LET path == Head(kids)
             c1 == fold(<<Last(path)>>, crc)
             c2 == IF fs[path].kind = "file" THEN fold(fs[path].data, c1)
                   ELSE IF fs[path].kind = "dir"
                        THEN fold_directory(fs, path, c1, rank)
                        ELSE c1
         IN fold_children(fs, Tail(kids), c2, rank)

\* FileSystemEntry.crc_directory on a filesystem that enumerates by rank
fold_directory(fs, directory, crc, rank) ==
    fold_children(fs,
                  sorted_by_key(enumerate(Children(fs, directory), rank),
                                <<>>),
                  fold(<<Last(directory)>>, crc), rank)

RECURSIVE agent_fold_directory(_, _, _, _)
RECURSIVE agent_fold_children(_, _, _, _)
\* the for loop of FluxAgent.crc_directory
agent_fold_children(fs, kids, crc, rank) ==
    IF kids = <<>> THEN crc
    ELSE LET path == Head(kids)
             c1 == fold(<<Last(path)>>, crc)
             c2 == IF fs[path].kind = "file" THEN fold(fs[path].data, c1)
                   ELSE IF fs[path].kind = "dir"
                        THEN agent_fold_directory(fs, path, c1, rank)
                        ELSE c1
         IN agent_fold_children(fs, Tail(kids), c2, rank)

\* FluxAgent.crc_directory on a filesystem that enumerates by rank
agent_fold_directory(fs, directory, crc, rank) ==
    agent_fold_children(fs,
                        sorted_by_key(enumerate(Children(fs, directory),
                                                rank), <<>>),
                        fold(<<Last(directory)>>, crc), rank)

\* both sides hash their copy of the tree
crc_both ==
    /\ ~crc_done
    /\ keeper_crc' = fold_directory(crc_tree, FoldRoot, <<>>, keeper_rank)
    /\ agent_crc' = agent_fold_directory(crc_tree, FoldRoot, <<>>,
                                         agent_rank)
    /\ crc_done' = TRUE
    /\ UNCHANGED <<crc_tree, keeper_rank, agent_rank>>
    /\ UNCHANGED <<syncVars, fhVars, netVars, runVars, enrVars, tlsVars,
                   cfgVars, plgVars, agtVars>>

InitFold ==
    /\ crc_tree \in FoldTrees
    /\ keeper_rank \in Ranks
    /\ agent_rank \in Ranks
    /\ keeper_crc = <<>>
    /\ agent_crc = <<>>
    /\ crc_done = FALSE

IdleFold ==
    /\ crc_tree = [p \in FoldPaths |-> IF p = FoldRoot THEN DirEntry
                                       ELSE Absent]
    /\ keeper_rank = [n \in CaseNames |-> lex(lower(n)) + (IF n = "A" THEN 2
                                                           ELSE 0)]
    /\ agent_rank = keeper_rank
    /\ keeper_crc = <<>>
    /\ agent_crc = <<>>
    /\ crc_done = TRUE

\* nothing registers, listens, is configured, loaded, hashed or constructed
IdleRest ==
    /\ IdleEnroll /\ IdleListener /\ IdleConfig
    /\ IdlePlugins /\ IdleFold /\ IdleAgent

\* Path.is_relative_to: base is a prefix of p (or equal to it)
is_relative_to(p, base) ==
    /\ Len(base) <= Len(p)
    /\ SubSeq(p, 1, Len(base)) = base

\* Path.relative_to
relative_to(p, base) == SubSeq(p, Len(base) + 1, Len(p))

exists(fs, p) == p \in DOMAIN fs /\ fs[p].kind # "absent"
is_dir(fs, p) == p \in DOMAIN fs /\ fs[p].kind = "dir"
is_file(fs, p) == p \in DOMAIN fs /\ fs[p].kind = "file"

\* the names whose files come with more than one content
VariedNames == { n \in { Alphabet[i] : i \in 1..Len(Alphabet) } :
                    Cardinality(ContentsOf(n)) > 1 }

\* the entry of p in the tree whose existing paths are S and whose files
\* hold the contents f gives them
EntryIn(S, f, p) ==
    IF p \notin S THEN Absent
    ELSE IF IsDirName(Last(p)) THEN DirEntry
    ELSE FileEntry(IF Last(p) \in DOMAIN f THEN f[Last(p)]
                   ELSE CHOOSE c \in ContentsOf(Last(p)) : TRUE)

\* the trees over a set of paths: kinds follow the names, parents exist
Trees(paths) ==
    { [p \in paths |-> EntryIn(S, f, p)] :
        S \in { T \in SUBSET paths :
                  \A p \in T : \A q \in paths :
                      is_relative_to(p, q) => q \in T },
        f \in { g \in [VariedNames -> Contents] :
                  \A n \in VariedNames : g[n] \in ContentsOf(n) } }

(***************************************************************************)
(* Sorting and CRC                                                         *)
(***************************************************************************)
\* Path.iterdir: the entries directly under p
iterdir(fs, p) ==
    { q \in DOMAIN fs : /\ Len(q) = Len(p) + 1
                        /\ is_relative_to(q, p)
                        /\ exists(fs, q) }

RECURSIVE sorted(_)
\* sorted(..., key=lambda p: str(p).lower())
sorted(S) ==
    IF S = {} THEN <<>>
    ELSE LET m == CHOOSE x \in S : \A y \in S : Code(Last(x)) <= Code(Last(y))
         IN <<m>> \o sorted(S \ {m})

RECURSIVE crc32(_, _)
\* binascii.crc32(data, crc)
crc32(data, crc) ==
    IF data = <<>> THEN crc
    ELSE crc32(Tail(data), crc * Base + Code(Head(data)))

\* FileSystemEntry.crc_file
crc_file(fs, filename, crc) == crc32(fs[filename].data, crc)

RECURSIVE crc_directory(_, _, _)
RECURSIVE crc_children(_, _, _)
\* the for loop of FileSystemEntry.crc_directory
crc_children(fs, kids, crc) ==
    IF kids = <<>> THEN crc
    ELSE LET path == Head(kids)
             c1 == crc32(<<Last(path)>>, crc)
             c2 == IF is_file(fs, path) THEN crc_file(fs, path, c1)
                   ELSE IF is_dir(fs, path) THEN crc_directory(fs, path, c1)
                   ELSE c1
         IN crc_children(fs, Tail(kids), c2)

\* FileSystemEntry.crc_directory
crc_directory(fs, directory, crc) ==
    crc_children(fs, sorted(iterdir(fs, directory)),
                 crc32(<<Last(directory)>>, crc))

(***************************************************************************)
(* Agent (fluxagent.py): hashing, removal and writing of remote objects    *)
(***************************************************************************)
\* FluxAgent.crc_file
agent_crc_file(fs, filename, crc) == crc32(fs[filename].data, crc)

RECURSIVE agent_crc_directory(_, _, _)
RECURSIVE agent_crc_children(_, _, _)
\* the for loop of FluxAgent.crc_directory
agent_crc_children(fs, kids, crc) ==
    IF kids = <<>> THEN crc
    ELSE LET path == Head(kids)
             c1 == crc32(<<Last(path)>>, crc)
             c2 == IF is_file(fs, path) THEN agent_crc_file(fs, path, c1)
                   ELSE IF is_dir(fs, path)
                        THEN agent_crc_directory(fs, path, c1)
                        ELSE c1
         IN agent_crc_children(fs, Tail(kids), c2)

\* FluxAgent.crc_directory
agent_crc_directory(fs, directory, crc) ==
    agent_crc_children(fs, sorted(iterdir(fs, directory)),
                       crc32(<<Last(directory)>>, crc))

\* FluxAgent.get_object_crc: a path that does not exist reports crc 0
get_object_crc(fs, path) ==
    [name |-> path,
     crc32 |-> IF ~exists(fs, path) THEN 0
               ELSE IF is_dir(fs, path) THEN agent_crc_directory(fs, path, 0)
               ELSE agent_crc_file(fs, path, 0)]

\* FluxAgent.get_all_object_hashes: one record per requested path, in order
get_all_object_hashes(fs, objects) ==
    [i \in 1..Len(objects) |-> get_object_crc(fs, objects[i])]

\* FluxAgent.get_file_hash
agent_get_file_hash(fs, file) ==
    <<[name |-> file, crc |-> agent_crc_file(fs, file, 0)]>>

RECURSIVE agent_get_directory_hashes(_, _)
RECURSIVE agent_hash_children(_, _)
\* the for loop of FluxAgent.get_directory_hashes
agent_hash_children(fs, kids) ==
    IF kids = <<>> THEN <<>>
    ELSE LET path == Head(kids)
             h == IF is_dir(fs, path) THEN agent_get_directory_hashes(fs, path)
                  ELSE IF is_file(fs, path) THEN agent_get_file_hash(fs, path)
                  ELSE <<>>
         IN h \o agent_hash_children(fs, Tail(kids))

\* FluxAgent.get_directory_hashes: the dict {path: crc} in insertion order;
\* a directory contributes the crc of its name alone
agent_get_directory_hashes(fs, dir) ==
    IF ~exists(fs, dir) THEN <<>>
    ELSE <<[name |-> dir, crc |-> crc32(<<Last(dir)>>, 0)]>>
         \o agent_hash_children(fs, sorted(iterdir(fs, dir)))

\* FluxAgent.remove_object: rmtree of a directory, remove of a file,
\* nothing when the path does not exist
remove_object(fs, obj) ==
    IF exists(fs, obj)
    THEN [q \in DOMAIN fs |-> IF is_relative_to(q, obj) THEN Absent ELSE fs[q]]
    ELSE fs

RECURSIVE remove_objects(_, _)
\* FluxAgent.remove_objects
remove_objects(fs, objects) ==
    IF objects = <<>> THEN fs
    ELSE remove_objects(remove_object(fs, Head(objects)), Tail(objects))

\* write_object(path, is_dir, data): parents are created as needed, a
\* directory is made, a file gets the bytes it was sent
write_object(fs, path, isdir, data) ==
    [q \in DOMAIN fs |->
        IF q = path THEN (IF isdir THEN (IF is_dir(fs, q) THEN fs[q] ELSE DirEntry)
                          ELSE FileEntry(data))
        ELSE IF is_relative_to(path, q) /\ ~exists(fs, q) THEN DirEntry
        ELSE fs[q]]

(***************************************************************************)
(* Directive state (fluxapp_config.py FileSystemEntry)                     *)
(***************************************************************************)
STRICT == "STRICT"
ALLOW_ADDS == "ALLOW_ADDS"
ENSURE_CREATED == "ENSURE_CREATED"
SyncStrategy == {STRICT, ALLOW_ADDS, ENSURE_CREATED}

\* the dataclass defaults of FileSystemEntry
FileSystemEntry ==
    [local_crc |-> 0, remote_crc |-> 0, validated_remote_crc |-> 0,
     in_sync |-> FALSE, local_object_exists |-> FALSE,
     remote_object_exists |-> FALSE]

\* a directive: the object at remote_path, sourced from the staging tree
Directive(isdir, path, strategy) ==
    [is_dir |-> isdir, remote_path |-> path, sync_strategy |-> strategy]

\* FileSystemEntry.absolute_remote_dir: the directory the object lives in
absolute_remote_dir(d) == SubSeq(d.remote_path, 1, Len(d.remote_path) - 1)

\* local_parent / name, also concrete_fs.path: the object in the staging tree
local_path(d) == FakeRoot \o d.remote_path

\* FileSystemEntry.validate_local_object (the staging tree has no
\* common_files directory): a missing object leaves the state as it was
validate_local_object(m, d, lfs) ==
    LET p == local_path(d) IN
    IF ~exists(lfs, p) THEN m
    ELSE [m EXCEPT !.local_object_exists = TRUE,
                   !.local_crc = IF is_file(lfs, p) THEN crc_file(lfs, p, 0)
                                 ELSE crc_directory(lfs, p, 0)]

\* FileSystemEntry.compare_objects
compare_objects(m) ==
    IF ~m.local_object_exists THEN m
    ELSE IF m.remote_crc = 0 /\ m.local_crc # 0
         THEN [m EXCEPT !.remote_object_exists = FALSE]
    ELSE IF m.remote_crc # m.local_crc
         THEN [m EXCEPT !.remote_object_exists = TRUE, !.in_sync = FALSE]
    ELSE [m EXCEPT !.remote_object_exists = TRUE, !.in_sync = TRUE]

\* list.remove: drops the first occurrence
RECURSIVE list_remove(_, _)
list_remove(l, x) ==
    IF l = <<>> THEN <<>>
    ELSE IF Head(l) = x THEN Tail(l)
    ELSE <<Head(l)>> \o list_remove(Tail(l), x)

RECURSIVE filter_loop(_, _, _)
\* the for loop of filter_hierarchy over existing_paths.copy()
filter_loop(current_path, copy, existing_paths) ==
    IF copy = <<>> THEN existing_paths
    ELSE LET existing_path == Head(copy) IN
         IF is_relative_to(current_path, existing_path)
         THEN filter_loop(current_path, Tail(copy), existing_paths)
         ELSE IF is_relative_to(existing_path, current_path)
         THEN filter_loop(current_path, Tail(copy),
                          Append(list_remove(existing_paths, existing_path),
                                 current_path))
         ELSE filter_loop(current_path, Tail(copy), existing_paths)

\* FileSystemeGroup.filter_hierarchy
filter_hierarchy(current_path, existing_paths) ==
    filter_loop(current_path, existing_paths, existing_paths)

(***************************************************************************)
(* Keeper (fluxkeeper.py): deltas                                          *)
(***************************************************************************)
None == -1

\* dict.get(key, None) on a dict kept as a sequence of name/crc records
dict_get(h, key) ==
    IF \E i \in 1..Len(h) : h[i].name = key
    THEN h[CHOOSE i \in 1..Len(h) : h[i].name = key].crc
    ELSE None

\* FileSystemEntry.get_file_hash
get_file_hash(fs, file) == <<[name |-> file, crc |-> crc_file(fs, file, 0)]>>

RECURSIVE get_directory_hashes(_, _)
RECURSIVE hash_children(_, _)
\* the for loop of FileSystemEntry.get_directory_hashes
hash_children(fs, kids) ==
    IF kids = <<>> THEN <<>>
    ELSE LET path == Head(kids)
             h == IF is_dir(fs, path) THEN get_directory_hashes(fs, path)
                  ELSE IF is_file(fs, path) THEN get_file_hash(fs, path)
                  ELSE <<>>
         IN h \o hash_children(fs, Tail(kids))

\* FileSystemEntry.get_directory_hashes over the staging tree
get_directory_hashes(fs, p) ==
    <<[name |-> p, crc |-> crc32(<<Last(p)>>, 0)]>>
    \o hash_children(fs, sorted(iterdir(fs, p)))

RECURSIVE extras_loop(_, _, _)
\* the for loop of get_extra_objects
extras_loop(local_hashes, remote_hashes, extras) ==
    IF remote_hashes = <<>> THEN extras
    ELSE LET remote_name == Head(remote_hashes).name
             target == FakeRoot \o relative_to(remote_name, <<>>)
             found == dict_get(local_hashes, target)
             extras1 == IF extras = <<>> THEN <<remote_name>> ELSE extras
         IN IF found = None
            THEN extras_loop(local_hashes, Tail(remote_hashes),
                             filter_hierarchy(remote_name, extras1))
            ELSE extras_loop(local_hashes, Tail(remote_hashes), extras)

\* FluxAppManager.get_extra_objects
get_extra_objects(local_hashes, remote_hashes) ==
    extras_loop(local_hashes, remote_hashes, <<>>)

RECURSIVE get_missing_or_modified_objects(_, _)
\* FluxAppManager.get_missing_or_modified_objects: the candidates
get_missing_or_modified_objects(local_hashes, remote_hashes) ==
    IF local_hashes = <<>> THEN <<>>
    ELSE LET lp == Head(local_hashes).name
             local_crc == Head(local_hashes).crc
             remote_absolute == relative_to(lp, FakeRoot)
             remote_crc == dict_get(remote_hashes, remote_absolute)
             rest == get_missing_or_modified_objects(Tail(local_hashes),
                                                     remote_hashes)
         IN IF remote_crc = None \/ remote_crc # local_crc
            THEN <<lp>> \o rest
            ELSE rest

(***************************************************************************)
(* Keeper (fluxkeeper.py): transfer and the poll                           *)
(***************************************************************************)
\* an RPC the keeper issued, as the agent saw it
Call(op, path, isdir, data, paths) ==
    [op |-> op, path |-> path, is_dir |-> isdir, data |-> data, paths |-> paths]

MAX_INBAND_FILESIZE == 1048576 * 50

\* stat().st_size of a staged file
st_size(fs, q) == Len(fs[q].data) * blockSize

RECURSIVE total_size(_, _)
\* the bytes of the files in a set of staging paths
total_size(fs, S) ==
    IF S = {} THEN 0
    ELSE LET q == CHOOSE x \in S : TRUE
         IN (IF is_file(fs, q) THEN st_size(fs, q) ELSE 0)
            + total_size(fs, S \ {q})

\* concrete_fs.size: the object's own bytes, or those of all its descendants
object_size(fs, p) ==
    total_size(fs, { q \in DOMAIN fs : is_relative_to(q, p) })

\* concrete_fs.get_partial_size
get_partial_size(fs, fragments) ==
    total_size(fs, { fragments[i] : i \in 1..Len(fragments) })

\* send_fragment with a plain else in place of elif fs_entry.is_file():
\* whatever is not a directory is sent as a file
send_fragment_else(lfs, d, remote_dir, fs_entry, inband, acc) ==
    LET abs_remote_path ==
            IF fs_entry # local_path(d)
            THEN remote_dir \o relative_to(fs_entry, local_path(d))
            ELSE remote_dir \o <<Last(fs_entry)>>
    IN IF is_dir(lfs, fs_entry)
       THEN [acc EXCEPT
               !.remote = write_object(@, abs_remote_path, TRUE, <<>>),
               !.calls = Append(@, Call("write_object", abs_remote_path,
                                        TRUE, <<>>, <<>>))]
       ELSE [acc EXCEPT
               !.remote = write_object(@, abs_remote_path, FALSE,
                                       lfs[fs_entry].data),
               !.calls = Append(@, Call("write_object", abs_remote_path,
                                        FALSE, lfs[fs_entry].data, <<>>))]

\* one iteration of the for loop of sync_remote_object; acc carries the
\* agent's tree, the calls issued and the to_stream list
send_fragment(lfs, d, remote_dir, fs_entry, inband, acc) ==
    LET abs_remote_path ==
            IF fs_entry # local_path(d)
            THEN remote_dir \o relative_to(fs_entry, local_path(d))
            ELSE remote_dir \o <<Last(fs_entry)>>
    IN IF is_dir(lfs, fs_entry)
       THEN [acc EXCEPT
               !.remote = write_object(@, abs_remote_path, TRUE, <<>>),
               !.calls = Append(@, Call("write_object", abs_remote_path,
                                        TRUE, <<>>, <<>>))]
       ELSE IF is_file(lfs, fs_entry)
       THEN IF inband
            THEN [acc EXCEPT
                    !.remote = write_object(@, abs_remote_path, FALSE,
                                            lfs[fs_entry].data),
                    !.calls = Append(@, Call("write_object", abs_remote_path,
                                             FALSE, lfs[fs_entry].data, <<>>))]
            ELSE [acc EXCEPT
                    !.to_stream = Append(@, <<fs_entry, abs_remote_path>>)]
       ELSE acc

RECURSIVE fragments_loop(_, _, _, _, _, _)
\* the for loop of sync_remote_object
fragments_loop(lfs, d, remote_dir, fragments, inband, acc) ==
    IF fragments = <<>> THEN acc
    ELSE fragments_loop(lfs, d, remote_dir, Tail(fragments), inband,
                        send_fragment(lfs, d, remote_dir, Head(fragments),
                                      inband, acc))

RECURSIVE stream_files(_, _, _)
\* transport.stream_files: every (local, remote) pair arrives byte for byte
stream_files(lfs, fs, to_stream) ==
    IF to_stream = <<>> THEN fs
    ELSE stream_files(lfs,
                      write_object(fs, Head(to_stream)[2], FALSE,
                                   lfs[Head(to_stream)[1]].data),
                      Tail(to_stream))

\* FluxAppManager.sync_remote_object; rs carries the agent's tree and calls
sync_remote_object(lfs, d, rs, object_fragments) ==
    LET remote_dir == IF object_fragments # <<>> THEN d.remote_path
                      ELSE absolute_remote_dir(d)
        fragments == IF object_fragments # <<>> THEN object_fragments
                     ELSE <<local_path(d)>>
        size == IF object_fragments # <<>>
                THEN get_partial_size(lfs, object_fragments)
                ELSE object_size(lfs, local_path(d))
        inband == size < MAX_INBAND_FILESIZE
        sent == fragments_loop(lfs, d, remote_dir, fragments, inband,
                               [remote |-> rs.remote, calls |-> rs.calls,
                                to_stream |-> <<>>])
    IN IF sent.to_stream # <<>>
       THEN [remote |-> stream_files(lfs, sent.remote, sent.to_stream),
             calls |-> Append(sent.calls,
                              Call("stream_files", <<>>, FALSE, <<>>,
                                   [i \in 1..Len(sent.to_stream) |->
                                        sent.to_stream[i][2]]))]
       ELSE [remote |-> sent.remote, calls |-> sent.calls]

\* FluxAppManager.resolve_file_state; st is the poll's running state
resolve_file_state(lfs, ds, st, idx) ==
    LET rs == sync_remote_object(lfs, ds[idx],
                                 [remote |-> st.remote, calls |-> st.calls], <<>>)
    IN [st EXCEPT !.remote = rs.remote, !.calls = rs.calls,
                  !.mo[idx].in_sync = TRUE,
                  !.mo[idx].remote_object_exists = TRUE]

\* FsStateManager.set_syncronized: the directives whose staging path is among
\* the fragments just sent are in sync
set_syncronized(ds, mos, fragments) ==
    [i \in DOMAIN mos |->
        IF \E k \in 1..Len(fragments) : fragments[k] = local_path(ds[i])
        THEN [mos[i] EXCEPT !.in_sync = TRUE]
        ELSE mos[i]]

\* memo_validated with the memo never written
memo_validated_never(m, removing) == m.validated_remote_crc

\* the strategy branch of resolve_directory_state: the memo is written
\* whenever nothing is removed (elif SyncStrategy.ALLOW_ADDS tests an enum
\* member, which is always true)
memo_validated(m, removing) ==
    IF removing THEN m.validated_remote_crc ELSE m.remote_crc

\* FluxAppManager.resolve_directory_state; the fragments it returns are
\* appended to st.fixed by the caller's fixed_objects.extend
resolve_directory_state(lfs, ds, st, idx) ==
    LET d == ds[idx]
        m == st.mo[idx]
    IN IF m.remote_crc = 0
       THEN LET rs == sync_remote_object(lfs, d, [remote |-> st.remote,
                                                  calls |-> st.calls], <<>>)
            IN [st EXCEPT !.remote = rs.remote, !.calls = rs.calls]
       ELSE
       LET remote_hashes == agent_get_directory_hashes(st.remote, d.remote_path)
           calls1 == Append(st.calls, Call("get_directory_hashes", d.remote_path,
                                           FALSE, <<>>, <<>>))
           local_hashes == get_directory_hashes(lfs, local_path(d))
           object_fragments ==
               get_missing_or_modified_objects(local_hashes, remote_hashes)
           objects_to_remove == get_extra_objects(local_hashes, remote_hashes)
           removing == d.sync_strategy = STRICT /\ objects_to_remove # <<>>
           remote1 == IF removing THEN remove_objects(st.remote, objects_to_remove)
                      ELSE st.remote
           calls2 == IF removing
                     THEN Append(calls1, Call("remove_objects", <<>>, FALSE, <<>>,
                                              objects_to_remove))
                     ELSE calls1
           validated == memo_validated(m, removing)
           rs == IF object_fragments # <<>>
                 THEN sync_remote_object(lfs, d, [remote |-> remote1,
                                                  calls |-> calls2],
                                         object_fragments)
                 ELSE [remote |-> remote1, calls |-> calls2]
           mo1 == IF object_fragments # <<>>
                  THEN set_syncronized(ds, st.mo, object_fragments)
                  ELSE st.mo
       IN [st EXCEPT !.remote = rs.remote, !.calls = rs.calls,
                     !.mo = [mo1 EXCEPT ![idx].validated_remote_crc = validated,
                                        ![idx].in_sync = TRUE,
                                        ![idx].remote_object_exists = TRUE],
                     !.fixed = @ \o object_fragments]

\* FileSystemeGroup.get_object_by_remote_path: the first directive at remote
get_object_by_remote_path(ds, rp) ==
    CHOOSE i \in 1..Len(ds) :
        /\ ds[i].remote_path = rp
        /\ \A j \in 1..(i - 1) : ds[j].remote_path # rp

\* concrete_fs.storable
storable(lfs, d) == is_dir(lfs, local_path(d))

\* concrete_fs.empty compares the bound method get_size with 0
empty(lfs, d) == FALSE

\* allow_adds_validated with the in_sync test inverted
allow_adds_validated_in_sync(lfs, d, m) ==
    /\ d.sync_strategy = ALLOW_ADDS
    /\ storable(lfs, d)
    /\ m.in_sync
    /\ m.validated_remote_crc = m.remote_crc

\* the ALLOW_ADDS test of sync_objects: the remote differs from the local
\* object but is the remote already validated
allow_adds_validated(lfs, d, m) ==
    /\ d.sync_strategy = ALLOW_ADDS
    /\ storable(lfs, d)
    /\ ~m.in_sync
    /\ m.validated_remote_crc = m.remote_crc

\* the ENSURE_CREATED test of sync_objects
ensure_created_exists(d, m) ==
    d.sync_strategy = ENSURE_CREATED /\ m.remote_object_exists

\* one iteration of the for loop of sync_objects
sync_one(lfs, ds, st, remote_fs_object) ==
    LET idx == get_object_by_remote_path(ds, remote_fs_object.name)
        d == ds[idx]
    IN IF \E k \in 1..Len(st.fixed) : st.fixed[k] = local_path(d)
       THEN [st EXCEPT !.mo[idx].remote_crc = st.mo[idx].local_crc,
                       !.returned = TRUE]
       ELSE
       LET m1 == [st.mo[idx] EXCEPT !.remote_crc = remote_fs_object.crc32]
           m == compare_objects(validate_local_object(m1, d, lfs))
           st1 == [st EXCEPT !.mo[idx] = m]
       IN IF ~m.local_object_exists THEN st1
          ELSE IF allow_adds_validated(lfs, d, m) THEN st1
          ELSE IF ensure_created_exists(d, m) THEN st1
          ELSE IF storable(lfs, d) /\ empty(lfs, d) /\ m.local_crc = m.remote_crc
               THEN st1
          ELSE LET st2 == IF ~m.in_sync /\ storable(lfs, d)
                          THEN resolve_directory_state(lfs, ds, st1, idx)
                          ELSE st1
               IN IF ~st2.mo[idx].in_sync /\ ~storable(lfs, d)
                  THEN resolve_file_state(lfs, ds, st2, idx)
                  ELSE st2

RECURSIVE sync_loop(_, _, _, _)
\* the for loop of sync_objects; a return inside it ends the poll
sync_loop(lfs, ds, st, remote_fs_objects) ==
    IF remote_fs_objects = <<>> \/ st.returned THEN st
    ELSE sync_loop(lfs, ds, sync_one(lfs, ds, st, Head(remote_fs_objects)),
                   Tail(remote_fs_objects))

\* FluxAppManager.sync_objects: one poll of one agent, as the state it leaves
sync_objects(lfs, rfs, ds, mos) ==
    LET remote_paths == [i \in 1..Len(ds) |-> ds[i].remote_path]
        remote_fs_objects == get_all_object_hashes(rfs, remote_paths)
        st0 == [mo |-> mos, remote |-> rfs,
                calls |-> <<Call("get_all_object_hashes", <<>>, FALSE, <<>>,
                                 remote_paths)>>,
                fixed |-> <<>>, returned |-> FALSE]
    IN sync_loop(lfs, ds, st0, remote_fs_objects)

(***************************************************************************)
(* The component polled, its construction and the steps                    *)
(***************************************************************************)
\* the components modelled: one directory directive or one file directive
Configs ==
    { <<Directive(TRUE, DirRemotePath, s)>> : s \in SyncStrategy }
    \cup { <<Directive(FALSE, FileRemotePath, s)>> : s \in SyncStrategy }

\* p lies in the object of one of the directives
Managed(ds, p) == \E i \in 1..Len(ds) : is_relative_to(p, ds[i].remote_path)

\* the trees in which only managed objects exist
RemoteTrees(ds) ==
    { fs \in Trees(RemotePaths) :
        \A p \in RemotePaths : exists(fs, p) => Managed(ds, p) }

LocalTrees(ds) ==
    { fs \in Trees(LocalPaths) :
        \A p \in RemotePaths : exists(fs, FakeRoot \o p) => Managed(ds, p) }

\* FluxKeeper construction: app.validate_local_objects() on fresh entries,
\* for a component among cfgs and a symbol weight among sizes
InitWith(cfgs, sizes) ==
    /\ directives \in cfgs
    /\ blockSize \in sizes
    /\ local \in LocalTrees(directives)
    /\ remote \in RemoteTrees(directives)
    /\ mo = [i \in 1..Len(directives) |->
                validate_local_object(FileSystemEntry, directives[i], local)]
    /\ calls = <<>>
    /\ lastOp = "init"
    /\ tick = 0
    /\ changes = 0

\* small files: every transfer is far below the in-band limit
InitSync == InitWith(Configs, {1})

IdleFilter ==
    /\ fhPath = <<>>
    /\ fhList = <<>>
    /\ fhResult = <<>>
    /\ fhDone = FALSE

Init == InitSync /\ IdleFilter /\ IdleNet /\ IdleRun /\ IdleRest

\* one polling cycle: the sync_objects task against the agent
Poll ==
    LET st == sync_objects(local, remote, directives, mo) IN
    /\ mo' = st.mo
    /\ remote' = st.remote
    /\ calls' = st.calls
    /\ lastOp' = "poll"
    /\ tick' = 1 - tick
    /\ UNCHANGED <<directives, local, changes, blockSize, fhVars, netVars, runVars, enrVars, tlsVars,
                 cfgVars,
                 plgVars, crcVars, agtVars>>

\* an entry put into a tree from outside, its parents made as needed
put(fs, p, e) ==
    [q \in DOMAIN fs |->
        IF q = p THEN e
        ELSE IF is_relative_to(p, q) /\ ~exists(fs, q) THEN DirEntry
        ELSE fs[q]]

\* an entry and all below it taken out of a tree from outside
take(fs, p) ==
    [q \in DOMAIN fs |-> IF is_relative_to(q, p) THEN Absent ELSE fs[q]]

EntriesOf(p) ==
    IF IsDirName(Last(p)) THEN {DirEntry}
    ELSE { FileEntry(c) : c \in ContentsOf(Last(p)) }

\* the operator edits the staging tree
LocalPut ==
    /\ changes < MaxChanges
    /\ \E p \in RemotePaths : \E e \in EntriesOf(p) :
          /\ Managed(directives, p)
          /\ local[FakeRoot \o p] # e
          /\ local' = put(local, FakeRoot \o p, e)
    /\ lastOp' = "change"
    /\ changes' = changes + 1
    /\ UNCHANGED <<directives, mo, remote, calls, tick, blockSize, fhVars, netVars, runVars, enrVars, tlsVars,
                 cfgVars,
                 plgVars, crcVars, agtVars>>

LocalRemove ==
    /\ changes < MaxChanges
    /\ \E p \in RemotePaths :
          /\ Managed(directives, p)
          /\ exists(local, FakeRoot \o p)
          /\ local' = take(local, FakeRoot \o p)
    /\ lastOp' = "change"
    /\ changes' = changes + 1
    /\ UNCHANGED <<directives, mo, remote, calls, tick, blockSize, fhVars, netVars, runVars, enrVars, tlsVars,
                 cfgVars,
                 plgVars, crcVars, agtVars>>

\* the tenant (or anything else on the node) edits the agent's tree
RemotePut ==
    /\ changes < MaxChanges
    /\ \E p \in RemotePaths : \E e \in EntriesOf(p) :
          /\ Managed(directives, p)
          /\ remote[p] # e
          /\ remote' = put(remote, p, e)
    /\ lastOp' = "change"
    /\ changes' = changes + 1
    /\ UNCHANGED <<directives, mo, local, calls, tick, blockSize, fhVars, netVars, runVars, enrVars, tlsVars,
                 cfgVars,
                 plgVars, crcVars, agtVars>>

RemoteRemove ==
    /\ changes < MaxChanges
    /\ \E p \in RemotePaths :
          /\ Managed(directives, p)
          /\ exists(remote, p)
          /\ remote' = take(remote, p)
    /\ lastOp' = "change"
    /\ changes' = changes + 1
    /\ UNCHANGED <<directives, mo, local, calls, tick, blockSize, fhVars, netVars, runVars, enrVars, tlsVars,
                 cfgVars,
                 plgVars, crcVars, agtVars>>

Next == Poll \/ LocalPut \/ LocalRemove \/ RemotePut \/ RemoteRemove

Spec == Init /\ [][Next]_vars

(***************************************************************************)
(* The same component with files around the in-band limit                  *)
(***************************************************************************)
\* symbol weights that put one file or two files together just below, at
\* and above MAX_INBAND_FILESIZE, and one 120 MiB file
BlockSizes ==
    { MAX_INBAND_FILESIZE \div 2, MAX_INBAND_FILESIZE - 1,
      MAX_INBAND_FILESIZE, MAX_INBAND_FILESIZE + 1, 1048576 * 120 }

StrictConfigs == { c \in Configs : c[1].sync_strategy = STRICT }

InitTransfer ==
    /\ InitWith(StrictConfigs, BlockSizes) /\ IdleFilter /\ IdleNet
    /\ IdleRun /\ IdleRest

SpecTransfer == InitTransfer /\ [][Next]_vars

(***************************************************************************)
(* filter_hierarchy on its own: any incoming path, any short list          *)
(***************************************************************************)
RECURSIVE Lists(_, _)
\* the lists over S of length at most n
Lists(S, n) ==
    IF n = 0 THEN { <<>> }
    ELSE Lists(S, n - 1)
         \cup { Append(l, x) : l \in { k \in Lists(S, n - 1) : Len(k) = n - 1 },
                               x \in S }

InitFilter ==
    /\ fhPath \in RemotePaths
    /\ fhList \in Lists(RemotePaths, MaxExtras)
    /\ fhResult = <<>>
    /\ fhDone = FALSE
    /\ directives = <<Directive(TRUE, DirRemotePath, STRICT)>>
    /\ local = [p \in LocalPaths |-> Absent]
    /\ remote = [p \in RemotePaths |-> Absent]
    /\ mo = <<FileSystemEntry>>
    /\ calls = <<>>
    /\ lastOp = "init"
    /\ tick = 0
    /\ changes = 0
    /\ blockSize = 1
    /\ IdleNet
    /\ IdleRun
    /\ IdleRest

ApplyFilter ==
    /\ ~fhDone
    /\ fhResult' = filter_hierarchy(fhPath, fhList)
    /\ fhDone' = TRUE
    /\ UNCHANGED <<fhPath, fhList, syncVars, netVars, runVars, enrVars, tlsVars,
                 cfgVars,
                 plgVars, crcVars, agtVars>>

NextFilter == ApplyFilter

SpecFilter == InitFilter /\ [][NextFilter]_vars

(***************************************************************************)
(* The transports on their own: one agent, two clients                     *)
(***************************************************************************)
\* no component polled
IdleSync ==
    /\ directives = <<Directive(TRUE, DirRemotePath, STRICT)>>
    /\ local = [p \in LocalPaths |-> Absent]
    /\ remote = [p \in RemotePaths |-> Absent]
    /\ mo = <<FileSystemEntry>>
    /\ calls = <<>>
    /\ lastOp = "init"
    /\ tick = 0
    /\ changes = 0
    /\ blockSize = 1

InitTransport ==
    /\ InitNet(BOOLEAN, Whitelists) /\ IdleSync /\ IdleFilter /\ IdleRun
    /\ IdleRest

SpecTransport == InitTransport /\ [][NextNet]_vars

(***************************************************************************)
(* The task pipeline on its own: two agents, one cycle                     *)
(***************************************************************************)
InitTasks ==
    /\ InitRun(TaskLists(MaxTasks) \cup DefaultLists, Faults)
    /\ IdleSync /\ IdleFilter /\ IdleNet /\ IdleRest

SpecTasks == InitTasks /\ [][NextRun]_vars

(***************************************************************************)
(* Registration and enrollment on their own                                *)
(***************************************************************************)
InitEnrollment ==
    /\ InitEnroll
    /\ IdleSync /\ IdleFilter /\ IdleNet /\ IdleRun
    /\ IdleListener /\ IdleConfig
    /\ IdlePlugins /\ IdleFold /\ IdleAgent

SpecEnroll == InitEnrollment /\ [][NextEnroll]_vars

\* the coroutine of a subordinate is scheduled again when its POST has
\* been answered or has timed out and when its sleep is over
NextRegister ==
    \/ \E s \in Subs : register_with_primary_agent(s)
    \/ \E s \in Subs : retry_sleep(s)
    \/ \E s \in Subs : update_local_agent(s)
    \/ \E state \in RegistrarStates : registrar_changes(state)

SpecRegisterFair ==
    /\ InitEnrollment
    /\ [][NextRegister]_vars
    /\ \A s \in Subs :
          /\ WF_vars(register_with_primary_agent(s))
          /\ WF_vars(retry_sleep(s))

\* discovery on its own: the rounds of build_agents on the answers of the
\* API, between them subordinates register and are enrolled
NextDiscovery ==
    \/ \E answer \in ApiAnswers :
          build_agents(set(get_fluxnode_ips(answer)))
    \/ \E conn \in [Subs -> BOOLEAN] : enroll_subordinates(conn)
    \/ \E s \in Subs : register_with_primary_agent(s)
    \/ \E s \in Subs : retry_sleep(s)

SpecDiscovery == InitEnrollment /\ [][NextDiscovery]_vars

(***************************************************************************)
(* The listener of an agent on its own                                     *)
(***************************************************************************)
InitUpgrade ==
    /\ InitListener
    /\ IdleSync /\ IdleFilter /\ IdleNet /\ IdleRun
    /\ IdleEnroll /\ IdleConfig
    /\ IdlePlugins /\ IdleFold /\ IdleAgent

SpecListener == InitUpgrade /\ [][NextListener]_vars

(***************************************************************************)
(* An app configuration on its own                                         *)
(***************************************************************************)
InitComponents ==
    /\ InitConfig
    /\ IdleSync /\ IdleFilter /\ IdleNet /\ IdleRun
    /\ IdleEnroll /\ IdleListener
    /\ IdlePlugins /\ IdleFold /\ IdleAgent

SpecConfig == InitComponents /\ [][NextConfig]_vars

(***************************************************************************)
(* A component of several directives                                       *)
(***************************************************************************)
\* a directory, a file inside that directory and a file elsewhere, in the
\* order of the component's list
MultiConfigs ==
    { <<Directive(TRUE, DirRemotePath, s),
        Directive(FALSE, DirRemotePath \o <<"a">>, s),
        Directive(FALSE, FileRemotePath, s)>> : s \in SyncStrategy }

InitMulti ==
    /\ InitWith(MultiConfigs, {1})
    /\ IdleFilter /\ IdleNet /\ IdleRun /\ IdleRest

\* the polls of such a component while nothing else touches the trees
SpecMulti == InitMulti /\ [][Poll]_vars

(***************************************************************************)
(* load_plugins on its own                                                 *)
(***************************************************************************)
InitLoad ==
    /\ InitPlugins
    /\ IdleSync /\ IdleFilter /\ IdleNet /\ IdleRun
    /\ IdleEnroll /\ IdleListener /\ IdleConfig
    /\ IdleFold /\ IdleAgent

SpecPlugins == InitLoad /\ [][load_plugins]_vars

(***************************************************************************)
(* The directory fold on its own                                           *)
(***************************************************************************)
InitHash ==
    /\ InitFold
    /\ IdleSync /\ IdleFilter /\ IdleNet /\ IdleRun
    /\ IdleEnroll /\ IdleListener /\ IdleConfig
    /\ IdlePlugins /\ IdleAgent

SpecFold == InitHash /\ [][crc_both]_vars

(***************************************************************************)
(* The constructor of an agent on its own                                  *)
(***************************************************************************)
InitConstruct ==
    /\ InitAgent
    /\ IdleSync /\ IdleFilter /\ IdleNet /\ IdleRun
    /\ IdleEnroll /\ IdleListener /\ IdleConfig
    /\ IdlePlugins /\ IdleFold

SpecAgent == InitConstruct /\ [][FluxAgent]_vars

(***************************************************************************)
(* Properties of the reconciliation engine                                 *)
(***************************************************************************)
Ops(cs) == { cs[k].op : k \in 1..Len(cs) }

IsWrite(c) == c.op \in {"write_object", "stream_files"}
IsRemove(c) == c.op = "remove_objects"

\* the call writes or removes something in the object of directive d
Touches(c, d) ==
    \/ c.op = "write_object" /\ is_relative_to(c.path, d.remote_path)
    \/ /\ c.op \in {"remove_objects", "stream_files"}
       /\ \E k \in 1..Len(c.paths) : is_relative_to(c.paths[k], d.remote_path)

\* no write_object and no remove_objects for directive d among the calls
NoWriteNoRemove(cs, d) == \A k \in 1..Len(cs) : ~Touches(cs[k], d)

\* the step is a poll
PollStep == tick' # tick

\* the crc the agent reports for the object of d
RemoteCrc(fs, d) == get_object_crc(fs, d.remote_path).crc32

\* every local descendant is on the agent with the local content
LocalPresent(lfs, rfs, d) ==
    \A p \in RemotePaths :
        (is_relative_to(p, d.remote_path) /\ exists(lfs, FakeRoot \o p))
            => rfs[p] = lfs[FakeRoot \o p]

\* the remote entries under d that do not exist locally
Extra(lfs, rfs, d) ==
    { p \in RemotePaths : /\ is_relative_to(p, d.remote_path)
                          /\ exists(rfs, p)
                          /\ ~exists(lfs, FakeRoot \o p) }

\* the roots of the extra remote subtrees
ExtraRoots(lfs, rfs, d) ==
    { p \in Extra(lfs, rfs, d) :
        \A q \in Extra(lfs, rfs, d) : is_relative_to(p, q) => q = p }

SeqToSet(l) == { l[k] : k \in 1..Len(l) }

\* C1 (as claimed): a poll that directly follows a poll, with no change to
\* the local or the remote object in between, issues no write_object and no
\* remove_objects for the directive.
C1_Idempotence ==
    [][\A i \in DOMAIN mo :
          (PollStep /\ lastOp = "poll")
              => NoWriteNoRemove(calls', directives[i])]_vars

C3_InSyncInvariant ==
    \A i \in DOMAIN mo :
        \/ ~mo[i].in_sync
        \/ mo[i].local_crc = mo[i].remote_crc
        \/ /\ directives[i].sync_strategy = ALLOW_ADDS
           /\ mo[i].remote_crc = mo[i].validated_remote_crc

\* C4 (as claimed): a poll of a STRICT directory directive whose remote
\* directory holds entries that do not exist locally calls remove_objects
\* with exactly the roots of the extra subtrees, before any write of the
\* poll, and writes nothing when nothing else differs.
C4_StrictRemoval ==
    [][\A i \in DOMAIN mo :
          LET d == directives[i] IN
          (/\ PollStep
           /\ d.is_dir
           /\ d.sync_strategy = STRICT
           /\ is_dir(local, local_path(d))
           /\ is_dir(remote, d.remote_path)
           /\ ExtraRoots(local, remote, d) # {})
          => /\ \E k \in 1..Len(calls') :
                   /\ IsRemove(calls'[k])
                   /\ SeqToSet(calls'[k].paths) = ExtraRoots(local, remote, d)
                   /\ \A j \in 1..(k - 1) : ~IsWrite(calls'[j])
             /\ LocalPresent(local, remote, d)
                   => \A k \in 1..Len(calls') : ~IsWrite(calls'[k])]_vars

\* C5: a poll of an ALLOW_ADDS directory directive whose remote directory is
\* a proper superset of the local one (every local descendant present and
\* equal, plus extra entries) issues no remove_objects and no write_object
\* and leaves validated_remote_crc equal to the remote_crc the agent
\* reported in that poll.
C5_AllowAddsSuperset ==
    [][\A i \in DOMAIN mo :
          LET d == directives[i] IN
          (/\ PollStep
           /\ d.is_dir
           /\ d.sync_strategy = ALLOW_ADDS
           /\ is_dir(local, local_path(d))
           /\ LocalPresent(local, remote, d)
           /\ Extra(local, remote, d) # {})
          => /\ NoWriteNoRemove(calls', d)
             /\ mo'[i].remote_crc = RemoteCrc(remote, d)
             /\ mo'[i].validated_remote_crc = mo'[i].remote_crc]_vars

\* the state a memoizing poll of a proper superset leaves
C5_Witness ==
    \E i \in DOMAIN mo :
        LET d == directives[i] IN
        /\ lastOp = "poll"
        /\ d.is_dir
        /\ d.sync_strategy = ALLOW_ADDS
        /\ is_dir(local, local_path(d))
        /\ LocalPresent(local, remote, d)
        /\ Extra(local, remote, d) # {}
        /\ "get_directory_hashes" \in Ops(calls)
        /\ NoWriteNoRemove(calls, d)
        /\ mo[i].validated_remote_crc = RemoteCrc(remote, d)
        /\ mo[i].validated_remote_crc # mo[i].local_crc

\* C6: once validated_remote_crc of an ALLOW_ADDS directory directive holds
\* a memo and the remote directory still hashes to it, a poll issues no
\* get_directory_hashes, no write_object and no remove_objects for the
\* directive (the poll's one get_all_object_hashes is all it sends).
C6_AllowAddsMemo ==
    [][\A i \in DOMAIN mo :
          LET d == directives[i] IN
          (/\ PollStep
           /\ d.is_dir
           /\ d.sync_strategy = ALLOW_ADDS
           /\ mo[i].validated_remote_crc # 0
           /\ mo[i].validated_remote_crc = RemoteCrc(remote, d))
          => /\ NoWriteNoRemove(calls', d)
             /\ \A k \in 1..Len(calls') :
                   ~(/\ calls'[k].op = "get_directory_hashes"
                     /\ calls'[k].path = d.remote_path)]_vars

\* the state the poll after the memoizing poll leaves: the remote differs
\* from the local directory, it is the validated one, nothing was sent
C6_Witness ==
    \E i \in DOMAIN mo :
        LET d == directives[i] IN
        /\ lastOp = "poll"
        /\ d.is_dir
        /\ d.sync_strategy = ALLOW_ADDS
        /\ is_dir(local, local_path(d))
        /\ Extra(local, remote, d) # {}
        /\ mo[i].validated_remote_crc # 0
        /\ mo[i].validated_remote_crc = RemoteCrc(remote, d)
        /\ mo[i].remote_crc = mo[i].validated_remote_crc
        /\ mo[i].remote_crc # mo[i].local_crc
        /\ ~mo[i].in_sync
        /\ NoWriteNoRemove(calls, d)
        /\ "get_directory_hashes" \notin Ops(calls)

\* C7 (as claimed): once the object of an ENSURE_CREATED directive exists on
\* the agent, a poll issues no write_object and no remove_objects for it,
\* whatever the local and the remote contents are.
C7_EnsureCreated ==
    [][\A i \in DOMAIN mo :
          (/\ PollStep
           /\ directives[i].sync_strategy = ENSURE_CREATED
           /\ exists(remote, directives[i].remote_path))
          => NoWriteNoRemove(calls', directives[i])]_vars

C9_ColdFileSync ==
    [][\A i \in DOMAIN mo :
          LET d == directives[i] IN
          (/\ PollStep
           /\ ~d.is_dir
           /\ is_file(local, local_path(d))
           /\ ~exists(remote, d.remote_path))
          => /\ \E k \in 1..Len(calls') :
                   /\ calls'[k] = Call("write_object", d.remote_path, FALSE,
                                       local[local_path(d)].data, <<>>)
                   /\ \A j \in 1..Len(calls') : IsWrite(calls'[j]) => j = k
             /\ mo'[i].in_sync
             /\ mo'[i].remote_crc = crc_file(local, local_path(d), 0)]_vars

\* no two entries of the list where one is an ancestor of, or equal to,
\* the other
NoAncestorPair(l) ==
    \A j, k \in 1..Len(l) : (j # k) => ~is_relative_to(l[k], l[j])

\* C10 (as claimed): for a list E without ancestor pairs and any path P,
\* filter_hierarchy(P, E) holds no two entries a, b with a an ancestor of,
\* or equal to, b.
C10_AncestorFiltering ==
    (fhDone /\ NoAncestorPair(fhList)) => NoAncestorPair(fhResult)

\* how many times x occurs in the list
CountIn(l, x) == Cardinality({ k \in 1..Len(l) : l[k] = x })

\* the two lists hold the same entries the same number of times
SameEntries(l1, l2) ==
    \A x \in SeqToSet(l1) \cup SeqToSet(l2) : CountIn(l1, x) = CountIn(l2, x)

\* the entries of the list that are not below P
RECURSIVE NotBelow(_, _)
NotBelow(l, P) ==
    IF l = <<>> THEN <<>>
    ELSE IF is_relative_to(Head(l), P) THEN NotBelow(Tail(l), P)
    ELSE <<Head(l)>> \o NotBelow(Tail(l), P)

\* the list the three-case rule gives for a path P and a list E
ThreeCaseRule(P, E) ==
    IF \E k \in 1..Len(E) : is_relative_to(P, E[k]) THEN E
    ELSE IF \E k \in 1..Len(E) : is_relative_to(E[k], P)
         THEN Append(NotBelow(E, P), P)
    ELSE Append(E, P)

\* C11 (as claimed): filter_hierarchy(P, E) is E when an entry of E is an
\* ancestor of P, E with the entries below P replaced by a single P when P
\* is an ancestor of entries of E, and E with P appended when P is
\* unrelated to every entry.
C11_ThreeCaseRule ==
    fhDone => SameEntries(fhResult, ThreeCaseRule(fhPath, fhList))

(***************************************************************************)
(* Properties of the transfer policy                                       *)
(***************************************************************************)
\* the positions of the inline file writes among the calls
InlineFiles(cs) ==
    { k \in 1..Len(cs) : cs[k].op = "write_object" /\ ~cs[k].is_dir }

\* the positions of the streamed transfers among the calls
StreamCalls(cs) == { k \in 1..Len(cs) : cs[k].op = "stream_files" }

\* the remote paths of the files the calls transfer
SentPaths(cs) ==
    { cs[k].path : k \in InlineFiles(cs) }
    \cup UNION { SeqToSet(cs[k].paths) : k \in StreamCalls(cs) }

\* the total bytes the calls transfer
TransferBytes(lfs, cs) ==
    total_size(lfs, { FakeRoot \o p : p \in SentPaths(cs) })

\* C12 (as claimed): a poll whose files to transfer total at most
\* MAX_INBAND_FILESIZE bytes (boundary included) sends them inline and
\* streams nothing; a poll whose files total more issues no write_object
\* with is_dir = false and one stream_files whose list names every file
\* exactly once.
C12_TransferPolicy ==
    [][PollStep =>
          LET bytes == TransferBytes(local, calls') IN
          /\ (bytes <= MAX_INBAND_FILESIZE) => StreamCalls(calls') = {}
          /\ (bytes > MAX_INBAND_FILESIZE) =>
                /\ InlineFiles(calls') = {}
                /\ Cardinality(StreamCalls(calls')) = 1
                /\ \A k \in StreamCalls(calls') :
                      \A p \in SentPaths(calls') :
                          CountIn(calls'[k].paths, p) = 1]_vars

\* a poll whose files total more than the limit streams each exactly once
StreamedTransfer ==
    [][PollStep =>
          LET bytes == TransferBytes(local, calls') IN
          (bytes > MAX_INBAND_FILESIZE) =>
                /\ InlineFiles(calls') = {}
                /\ Cardinality(StreamCalls(calls')) = 1
                /\ \A k \in StreamCalls(calls') :
                      \A p \in SentPaths(calls') :
                          CountIn(calls'[k].paths, p) = 1]_vars

(***************************************************************************)
(* Properties of the transports                                            *)
(***************************************************************************)
\* the frames a client wrote on the connection so far
ClientFrames(tr) ==
    { i \in 1..Len(tr) : tr[i].ev = "frame" /\ tr[i].from = "client" }

\* the test messages the agent wrote on the connection so far
TestFrames(tr) ==
    { i \in AgentFrames(tr) : tr[i].frame.text = "TestEncryptionMessage" }

\* the first of a set of positions
First(S) == CHOOSE i \in S : \A j \in S : i <= j

\* the RSA keys generated for the connection
KeysOf(tr) == { tr[i].frame.key : i \in { j \in 1..Len(tr) :
                                            tr[j].ev = "keygen" } }

\* C13: on every connection the agent's first frame is the public key it
\* generated for that connection and for no other; the keeper's session
\* key envelope follows that frame and is made for that key; the agent's
\* test message follows the decryption of the session key, is an AES
\* envelope under it and carries a random fill; the keeper's response
\* follows the test message and carries its fill reversed; and the socket
\* is marked encrypted only on a response whose text and reversed fill
\* match the test message sent before.
C13_HandshakeOrdering ==
    \A p \in Peers :
      LET tr == trace[p] IN
      /\ AgentFrames(tr) # {} =>
            LET i == First(AgentFrames(tr)) IN
            /\ tr[i].frame.kind = "public_key"
            /\ \E j \in 1..(i - 1) :
                  tr[j].ev = "keygen" /\ tr[j].frame = tr[i].frame
            /\ \A q \in Peers \ {p} : tr[i].frame.key \notin KeysOf(trace[q])
      /\ p = Keeper =>
            \A i \in ClientFrames(tr) :
              /\ tr[i].frame.kind = "rsa_envelope" =>
                    \E j \in AgentFrames(tr) :
                        /\ j < i
                        /\ tr[j].frame.kind = "public_key"
                        /\ tr[j].frame.key = tr[i].frame.key
              /\ i = First(ClientFrames(tr)) =>
                    tr[i].frame.kind = "rsa_envelope"
              /\ tr[i].frame.text = "TestEncryptionMessageResponse" =>
                    \E j \in TestFrames(tr) :
                        /\ j < i
                        /\ tr[i].frame.fill = Reverse(tr[j].frame.fill)
      /\ \A i \in TestFrames(tr) :
            /\ tr[i].frame.kind = "aes_envelope"
            /\ tr[i].frame.fill \in Fills
            /\ \E j \in 1..(i - 1) :
                  /\ tr[j].ev = "aeskey"
                  /\ tr[j].frame.fill = <<tr[i].frame.key>>
      /\ \A i \in 1..Len(tr) :
            tr[i].ev = "encrypted" =>
                /\ tr[i].frame.text = "TestEncryptionMessageResponse"
                /\ \E j \in TestFrames(tr) :
                      /\ j < i
                      /\ tr[i].frame.fill = Reverse(tr[j].frame.fill)
                      /\ tr[i].frame.key = tr[j].frame.key
      /\ sockets[p].encrypted =>
            \E i \in 1..Len(tr) : tr[i].ev = "encrypted"

\* the keeper's handshake went through on both sides
C13_Witness ==
    /\ sockets[Keeper].present
    /\ sockets[Keeper].encrypted
    /\ client[Keeper].encrypted
    /\ client[Keeper].pc = "ready"

\* C14 (as claimed): once the response to the test message did not match,
\* the agent queues no message of that peer and writes no frame to it.
C14_MismatchFatal ==
    \A p \in Peers :
      LET tr == trace[p] IN
      \A i \in 1..Len(tr) :
        tr[i].ev = "mismatch" =>
            \A j \in (i + 1)..Len(tr) :
                /\ tr[j].ev # "queued"
                /\ ~(tr[j].ev = "frame" /\ tr[j].from = "agent")

\* the source of p is verified against a whitelist that leaves it out
Unlisted(p) ==
    /\ authenticate_clients
    /\ whitelisted_addresses # {}
    /\ Address(p) \notin whitelisted_addresses

\* C15: with source verification on and a whitelist that does not hold the
\* peer's address, the peer gets no socket entry, no RSA key is generated
\* for it, no frame is written to it and no message of it is queued.
C15_WhitelistDrop ==
    \A p \in Peers :
      Unlisted(p) =>
          /\ ~sockets[p].present
          /\ sockets[p] = NoEntry
          /\ \A i \in 1..Len(trace[p]) :
                /\ trace[p][i].ev \notin {"keygen", "aeskey", "queued",
                                          "encrypted"}
                /\ ~(trace[p][i].ev = "frame" /\ trace[p][i].from = "agent")
          /\ \A k \in 1..Len(messages) : messages[k][1] # p
          /\ handler[p].stage \in {"none", "accept", "done"}

\* an unlisted peer connected and was dropped
C15_Witness ==
    \E p \in Peers :
        /\ Unlisted(p)
        /\ handler[p].stage = "done"
        /\ closed[p].agent
        /\ \E i \in 1..Len(trace[p]) : trace[p][i].ev = "drop"

\* C16 (as claimed): on every connection every frame of the agent after
\* its public key and every frame of the keeper after its session key
\* envelope is an AES envelope, and the agent queues no message received
\* on a socket that is not marked encrypted.
C16_Confidentiality ==
    \A p \in Peers :
      LET tr == trace[p] IN
      /\ \A i \in AgentFrames(tr) :
            i # First(AgentFrames(tr)) => tr[i].frame.kind = "aes_envelope"
      /\ p = Keeper =>
            \A i \in ClientFrames(tr) :
              i # First(ClientFrames(tr)) => tr[i].frame.kind = "aes_envelope"
      /\ \A i \in 1..Len(tr) : tr[i].ev = "queued" => tr[i].enc

\* handle_client is running for the peer
Connected(p) == handler[p].stage \in {"key", "test", "loop"}

\* C17 (as claimed): in every state the peers with an entry holding key
\* material are among the peers whose connection has not ended.
C17_KeysDestroyed ==
    \A p \in Peers : sockets[p].present => Connected(p)

(***************************************************************************)
(* Properties of the task pipeline                                         *)
(***************************************************************************)
\* the positions of the steps of one kind in a runner's log
StepsOf(l, ev) == { j \in 1..Len(l) : l[j].ev = ev }

\* C18: in every agent's task_runner the tasks start in declared order and
\* a task starts only after the task started before it has returned; the
\* runners of different agents are not ordered against each other.
C18_SequentialTasks ==
    \A a \in Agents :
      LET l == runlog[a] IN
      /\ \A j, k \in StepsOf(l, "start") :
            j < k =>
                /\ l[j].index < l[k].index
                /\ \E m \in StepsOf(l, "end") :
                      j < m /\ m < k /\ l[m].index = l[j].index
      /\ \A m \in StepsOf(l, "end") :
            \E j \in StepsOf(l, "start") : j < m /\ l[j].index = l[m].index
      /\ \A j \in StepsOf(l, "start") : tasks[a][l[j].index + 1].func

\* one agent is in its second task while the other agent is in a task
C18_Witness ==
    /\ runner["agent1"].phase = "in_task"
    /\ runner["agent1"].index = 1
    /\ \E m \in StepsOf(runlog["agent1"], "end") :
          runlog["agent1"][m].index = 0
    /\ runner["agent2"].phase = "in_task"

\* the agent's node accepts the connection and its task bodies return
Benign(a) == fault[a] = Ok

\* C19 (as claimed): for every task list of an agent whose connection and
\* tasks do not fail, the transport is connected by the first task of the
\* list, no later task connects and no task but the last disconnects; when
\* the runner has returned the transport is disconnected by the last task
\* if stay_connected is unset and left connected if it is set.
C19_ConnectFirstDisconnectLast ==
    \A a \in Agents :
      (Benign(a) /\ Len(tasks[a]) >= 1) =>
        LET l == runlog[a]
            n == Len(tasks[a])
        IN
        /\ \A j \in StepsOf(l, "connect") : l[j].index = 0
        /\ \A j \in StepsOf(l, "disconnect") :
              l[j].index = n - 1 /\ ~stay_connected
        /\ \A j \in StepsOf(l, "start") :
              \E c \in StepsOf(l, "connect") : c < j
        /\ runner[a].index >= 1 => StepsOf(l, "connect") # {}
        /\ (runner[a].phase = "returned" /\ ~stay_connected) =>
              /\ ~transport[a].connected
              /\ \E j \in StepsOf(l, "disconnect") : l[j].index = n - 1
        /\ (runner[a].phase = "returned" /\ stay_connected) =>
              transport[a].connected

\* every task of the list has a func
AllFunc(l) == \A i \in 1..Len(l) : l[i].func

\* C20 (as claimed): when the cycle is over, every agent whose own
\* connection and tasks did not fail has run its task list to completion
\* and the results of the cycle are returned.
C20_FailureIsolation ==
    outcome # "running" =>
        \A a \in Agents :
          (Benign(a) /\ AllFunc(tasks[a])) =>
              /\ runner[a].phase = "returned"
              /\ results[a] = 0..(Len(tasks[a]) - 1)
              /\ outcome = "returned"

\* the steps that start a task or open a connection
Starting == {"call", "start", "attempt", "keyring", "retry"}

\* C21: once an agent's transport is marked NO_SOCKET, that agent's runner
\* calls no further task of its list in the cycle and makes no further
\* connection attempt; the only steps that follow are the end of the task
\* in which the mark was set.
C21_NoSocketTerminates ==
    \A a \in Agents :
      LET l == runlog[a] IN
      /\ \A j \in StepsOf(l, "no_socket") :
            \A k \in (j + 1)..Len(l) :
               /\ l[k].ev \notin Starting
               /\ l[k].index = l[j].index
      /\ (transport[a].failed_on = NO_SOCKET /\ runner[a].phase # "in_task")
            => /\ StepsOf(l, "no_socket") # {}
               /\ \A i \in results[a] :
                     \A j \in StepsOf(l, "no_socket") : i <= l[j].index

\* an agent's runner has returned on NO_SOCKET before a task with a func
C21_Witness ==
    \E a \in Agents :
      /\ transport[a].failed_on = NO_SOCKET
      /\ runner[a].phase = "returned"
      /\ runner[a].index < Len(tasks[a])
      /\ tasks[a][runner[a].index + 1].func

\* the positions in a runner's log of the steps of one kind of one task
StepsAt(l, ev, index) == { j \in StepsOf(l, ev) : l[j].index = index }

C23_KeyErrorSurfaced ==
    \A a \in Agents :
      StepsOf(runlog[a], "keyerror") # {} =>
        /\ StepsOf(runlog[a], "retry") = {}
        /\ outcome # "exited"

\* the names of the tasks an agent has started, in the order of the starts
RECURSIVE Started(_, _)
Started(l, ts) ==
    IF l = <<>> THEN <<>>
    ELSE (IF Head(l).ev = "start"
          THEN <<ts[Head(l).index + 1].name>> ELSE <<>>)
         \o Started(Tail(l), ts)

\* the names of s that are in names, in the order of s
RECURSIVE Only(_, _)
Only(s, names) ==
    IF s = <<>> THEN <<>>
    ELSE (IF Head(s) \in names THEN <<Head(s)>> ELSE <<>>)
         \o Only(Tail(s), names)

\* C24 (as claimed): when a cycle of run_agents_async called without tasks
\* and targets is over, every agent whose connection and tasks do not fail
\* has started enroll_subordinates, then sync_objects, then get_state, each
\* once.
C24_DefaultPipeline ==
    outcome # "running" =>
        \A a \in Agents :
          (Benign(a) /\ tasks[a] \in DefaultLists) =>
              Only(Started(runlog[a], tasks[a]),
                   {"enroll_subordinates", "sync_objects", "get_state"})
                = <<"enroll_subordinates", "sync_objects", "get_state">>

(***************************************************************************)
(* Properties of registration and enrollment                               *)
(***************************************************************************)
\* the steps the Keeper takes to enroll a subordinate it has connected to
Enrollment ==
    <<"generate_csr", "sign_csr", "install_cert", "install_ca_cert",
      "upgrade_to_ssl", "reconnect_tls">>

\* C25 (as claimed): whenever enroll_subordinates has connected to a
\* subordinate that is not enrolled, it goes on with generate_csr, the
\* signing by the CA, install_cert, install_ca_cert, upgrade_to_ssl and a
\* reconnection over TLS on port+1, in that order; a subordinate reported
\* as enrolled is not enrolled again.
C25_EnrollmentSequence ==
    \A s \in Subs :
      LET h == history[s] IN
      \A j \in 1..Len(h) :
         h[j] = "connect" =>
            /\ Len(h) >= j + Len(Enrollment)
            /\ SubSeq(h, j + 1, j + Len(Enrollment)) = Enrollment

\* C26 (as claimed): in every state the Keeper's list holds no two agents
\* of the same identity (app name, address, component name).
C26_UniqueAgents ==
    \A i, j \in 1..Len(agents) : agents[i] = agents[j] => i = j

\* the entries of the registrar's list for a subordinate
EntriesFor(s) ==
    { i \in 1..Len(sub_agents) : sub_agents[i].dns_name = dns_name(s) }

\* C28: register_with_primary_agent returns only on a turn in which the
\* registrar answers the POST with 202, having handled the registration;
\* after a timeout, a connection error or another status the POST is made
\* again; and if from some point on the registrar answers every POST with
\* 202, every subordinate's registration completes.
C28_RegistrationCompletes ==
    /\ [][\A s \in Subs :
            (sub[s].pc # "registered" /\ sub'[s].pc = "registered")
              => /\ registrar = "up"
                 /\ sub_agents' = Append(sub_agents, as_dict(s, FALSE))]_vars
    /\ [][\A s \in Subs :
            (sub[s].pc # "registered" /\ registrar # "up")
              => sub'[s].pc \in {"posting", "sleeping"}]_vars
    /\ \A s \in Subs :
          <>[](registrar = "up") => <>(sub[s].pc = "registered")

\* a subordinate has registered after a POST that was not accepted
C28_Witness ==
    \E s \in Subs : sub[s].pc = "registered" /\ sub[s].retried

\* C29 (as claimed): once a subordinate has set its enrolled flag and its
\* POST to /update has been answered, the registrar's list holds it once,
\* as enrolled, get_subagents reports it as enrolled and no
\* enroll_subordinates cycle enrolls it afterwards.
C29_EnrolledPersists ==
    \A s \in Subs :
      sub[s].posted =>
        /\ Cardinality(EntriesFor(s)) = 1
        /\ \A i \in EntriesFor(s) : sub_agents[i].enrolled
        /\ get_subagents(sub_agents).payload[dns_name(s)].enrolled
        /\ \A j, k \in 1..Len(history[s]) :
              (history[s][j] = "update" /\ j < k)
                => history[s][k] \notin {"connect", "no_socket"}

(***************************************************************************)
(* Properties of an app configuration                                      *)
(***************************************************************************)
\* C27: after any sequence of add_component and ensure_included calls on a
\* configuration that started without components, no two components have
\* the same name, and a call that names an existing component leaves the
\* list and the component in it as they were.
C27_UniqueComponents ==
    /\ \A i, j \in 1..Len(components) :
          components[i].name = components[j].name => i = j
    /\ lastAdd.existed => components = lastAdd.before

\* add_component was called for a name of the list with other settings
C27_Witness ==
    /\ lastAdd.op = "add_component"
    /\ lastAdd.existed
    /\ Len(components) >= 2
    /\ \E i \in 1..Len(components) :
          /\ components[i].name = lastAdd.name
          /\ components[i].remote_working_dir = "/data"

(***************************************************************************)
(* Properties of the listener                                              *)
(***************************************************************************)
\* C30: once upgrade_to_ssl has returned, every server of the agent that
\* listens or is about to is on bind_port + 1 with a TLS context of the
\* key, certificate and CA that were installed and verify mode
\* CERT_REQUIRED, the plaintext listener accepts no connection, at most
\* one listener is active, and when the serve task has started the TLS
\* listener is the one active.
C30_TlsUpgrade ==
    upgraded.done =>
      /\ \A l \in listeners \cup pending :
            /\ l.port = bind_port + 1
            /\ l.ssl # NoContext
            /\ l.ssl.verify_mode = CERT_REQUIRED
      /\ rpc_server.ssl = [cert |-> upgraded.cert, key |-> upgraded.key,
                           ca |-> upgraded.ca, verify_mode |-> CERT_REQUIRED]
      /\ Unset \notin {upgraded.cert, upgraded.key, upgraded.ca}
      /\ PlainTransport(bind_port) \notin listeners
      /\ Cardinality(listeners) <= 1
      /\ pending = {} => listeners = {rpc_server}

\* the TLS server listens after the upgrade
C30_Witness ==
    /\ upgraded.done
    /\ listeners = {rpc_server}
    /\ rpc_server.port = bind_port + 1

(***************************************************************************)
(* Properties of load_plugins                                              *)
(***************************************************************************)
\* the places of an event of a plugin in the log of load_plugins
PlugAt(ev, name) ==
    { i \in 1..Len(plugin_log) : plugin_log[i] = PlugEv(ev, name) }

\* the names registered
Registered == { plugins[i] : i \in 1..Len(plugins) }

\* C31: when load_plugins has returned over a directory whose modules all
\* import, a plugin with required packages was registered after its
\* packages were installed, a plugin whose installation failed is not
\* registered and an error is logged for it, and every other extension
\* of the directory is registered.
C31_FailedInstallSkipsOne ==
    (/\ plugin_outcome = "returned"
     /\ \A i \in 1..Len(plugin_dir) : plugin_dir[i].imports)
    => \A i \in 1..Len(plugin_dir) :
          LET f == plugin_dir[i] IN
          /\ (f.extension /\ f.required /\ f.name \in Registered)
                => \E j \in PlugAt("pip_install", f.name) :
                      \A k \in PlugAt("add_plugin", f.name) : j < k
          /\ (f.extension /\ f.required /\ ~f.pip_ok)
                => /\ f.name \notin Registered
                   /\ PlugAt("pip_error", f.name) # {}
          /\ (f.extension /\ (~f.required \/ f.pip_ok))
                => f.name \in Registered

(***************************************************************************)
(* Properties of the inbound queue of the server transport                 *)
(***************************************************************************)
\* the smallest capacity a bounded queue of the transport can have
QueueCapacity == 1

\* C32: the messages received and not yet taken by receive_message are
\* never more than the capacity of the queue: with the queue full,
\* handle_client reads no further frame.
C32_BoundedQueue == Len(messages) <= QueueCapacity

(***************************************************************************)
(* Properties of a poll over several directives                            *)
(***************************************************************************)
\* C33: in the first poll of a component every file directive whose
\* staged file exists with a non-zero CRC is evaluated and synced, whatever
\* happened to the directives before it in the list: afterwards the
\* agent holds the file, with the staged content unless the strategy is
\* ENSURE_CREATED and the agent had a file already.
C33_DirectivesIndependent ==
    [][(lastOp = "init" /\ tick' # tick) =>
         \A i \in 1..Len(directives) :
            LET d == directives[i] IN
            (/\ ~d.is_dir
             /\ is_file(local, local_path(d))
             /\ crc_file(local, local_path(d), 0) # 0)
            => /\ is_file(remote', d.remote_path)
               /\ (d.sync_strategy # ENSURE_CREATED
                   \/ ~exists(remote, d.remote_path))
                    => remote'[d.remote_path] = local[local_path(d)]]_vars

(***************************************************************************)
(* Properties of the memo of a directive                                   *)
(***************************************************************************)
\* C34: a poll writes validated_remote_crc only for an ALLOW_ADDS
\* directive; for a STRICT or ENSURE_CREATED directive every poll leaves
\* it as it was.
C34_MemoOnlyAllowAdds ==
    [][\A i \in 1..Len(directives) :
          directives[i].sync_strategy # ALLOW_ADDS
          => mo'[i].validated_remote_crc = mo[i].validated_remote_crc]_vars

(***************************************************************************)
(* Properties of the first poll and of a poll after a remote deletion      *)
(***************************************************************************)
\* C36: the first poll of a fresh directive whose staged object exists
\* with a non-zero CRC and whose remote object is missing creates the
\* object on the agent, for every strategy, for files and directories.
C36_FirstPollCreates ==
    [][(lastOp = "init" /\ tick' # tick) =>
         \A i \in 1..Len(directives) :
            LET d == directives[i] IN
            (/\ mo[i].local_object_exists
             /\ mo[i].local_crc # 0
             /\ ~exists(remote, d.remote_path))
            => /\ exists(remote', d.remote_path)
               /\ \E k \in 1..Len(calls') :
                     calls'[k].op \in {"write_object", "stream_files"}]_vars

\* C37: when a STRICT or ALLOW_ADDS directive is in sync, its remote
\* object has been removed since and the staged object is as it was
\* hashed, the next poll transfers the object again.
C37_RemoteDeletionRepaired ==
    [][(lastOp = "change" /\ tick' # tick) =>
         \A i \in 1..Len(directives) :
            LET d == directives[i] IN
            (/\ d.sync_strategy \in {STRICT, ALLOW_ADDS}
             /\ mo[i].in_sync
             /\ mo[i].local_crc # 0
             /\ validate_local_object(mo[i], d, local) = mo[i]
             /\ ~exists(remote, d.remote_path))
            => /\ exists(remote', d.remote_path)
               /\ \E k \in 1..Len(calls') :
                     calls'[k].op \in {"write_object", "stream_files"}]_vars

(***************************************************************************)
(* Properties of the directory fold                                        *)
(***************************************************************************)
\* C35: Keeper and agent fold the same sequence for the same tree,
\* whatever order their filesystems enumerate in, also when sibling
\* names differ only in case; an empty directory folds to its name alone.
C35_FoldOrderIndependent ==
    crc_done =>
      /\ keeper_crc = agent_crc
      /\ Children(crc_tree, FoldRoot) = {} => keeper_crc = <<"d">>

(***************************************************************************)
(* Properties of the constructor of an agent                               *)
(***************************************************************************)
\* C38: the server transport of every agent that was constructed has an
\* auth provider or verifies the source address against a whitelist that
\* is not empty.
C38_PeerCheckEnabled ==
    agent_made = "made" =>
      \/ agent_transport.auth_provider # NoProvider
      \/ /\ agent_transport.verify_source_address
         /\ agent_transport.whitelisted_addresses # {}

(***************************************************************************)
(* Properties of discovery                                                 *)
(***************************************************************************)
\* the agents of a list at the addresses given, in the order of the list
Survivors(list, ips) == SelectIp(list, agent_ips(list) \ ips)

\* C39: while the last round of build_agents worked with a set of
\* addresses that is not empty, the addresses of the managed agents are
\* that set; the round kept the agents at surviving addresses as they
\* were and appended one primary agent for each new address; a round
\* with no address left the list as it was.
C39_DiscoveryReconciled ==
    /\ [](node_ips # {} => agent_ips(agents) = node_ips)
    /\ [][node_ips' # node_ips =>
            IF node_ips' = {} THEN agents' = agents
            ELSE LET kept == Survivors(agents, node_ips')
                     new == node_ips' \ agent_ips(agents)
                 IN /\ Len(agents') = Len(kept) + Cardinality(new)
                    /\ SubSeq(agents', 1, Len(kept)) = kept
                    /\ \A ip \in new :
                          \E i \in (Len(kept) + 1)..Len(agents') :
                             agents'[i] = AgentId(ip, "fluxagent")]_vars

\* the node of the registrar was left for another one after a
\* subordinate had been enrolled through it
C39_Witness ==
    /\ node_ips = {"ip2"}
    /\ agents = <<AgentId("ip2", "fluxagent")>>
    /\ cycles > 0

(***************************************************************************)
(* Properties of the manage_transport wrapper                              *)
(***************************************************************************)
\* what a step appended to the log of an agent
Appended(a) == SubSeq(runlog'[a], Len(runlog[a]) + 1, Len(runlog'[a]))

====
